---- MODULE Spec2Model ----
(***************************************************************************)
(* Model of the robot <-> UI bridge of back/direct_bridge.py:              *)
(*   - the alias registry (robot_alias_manager) and the per-connection     *)
(*     coroutine DirectBridge.handle_tcp_client,                           *)
(*   - ConnectionManager._tcp_clients,                                     *)
(*   - the UI set (ui_websockets), the subscription map                    *)
(*     (DirectBridge.websocket_subscriptions), broadcast_to_all_ui and     *)
(*     DirectBridge.broadcast_to_subscribers,                              *)
(*   - the per-WebSocket coroutine DirectBridge.handle_ws_client.          *)
(* Every coroutine is cut at its suspension points: the await of a socket  *)
(* read or write, and the await of an asyncio.Lock that is not free.  A    *)
(* free lock is taken without suspending, so a critical section that holds *)
(* no await runs in the step that reaches it; one that is reached while    *)
(* the lock is taken runs in a later step, when the lock is handed over.   *)
(***************************************************************************)
EXTENDS Integers, Sequences, FiniteSets, TLC

\* ------------------------------------------------------------------ bounds
\* number of concurrently running handle_tcp_client coroutines
MaxConns == 2
\* number of concurrently running handle_ws_client coroutines
MaxClients == 2
\* aliases the process may mint before the model stops accepting new keys
MaxAlias == 3
\* subscription commands the UI clients send in one run
MaxCmds == 2
\* motors the PID configuration file may hold an entry for
MaxMotors == 2
\* integration steps of the pose of one robot address
MaxSteps == 2
\* firmware uploads started in one run
MaxUploads == 3
\* the largest declared firmware size, in bytes
MaxSize == 2
\* OTA connections open at once, and OTA transfers of one firmware
MaxOta == 2
\* samples a robot key feeds the trajectory calculator, and the latest
\* encoder timestamp, when every input is explored
MaxFrames == 4
MaxTime == 3
\* the last second the clock reaches
MaxClock == 7
\* path points appended in the long run that fills path_history
MaxRun == 1002

\* ---------------------------------------------------------------- universes
Conns == 1..MaxConns
Clients == 1..MaxClients
IPs == {"10.0.0.5", "10.0.0.6"}
Ports == {55000, 55001}
\* unique_robot_key = f"{ip}:{port}", kept as the pair it is built from
Keys == IPs \X Ports
NoKey == <<"", 0>>
\* f"robot{n}"
AliasNames == <<"robot1", "robot2", "robot3", "robot4", "robot5", "robot6", "robot7", "robot8">>
NoAlias == ""
GLOBAL_SUBSCRIPTION_KEY == "__GLOBAL__"
\* the types of the envelopes transform_robot_message produces for telemetry
DataTypes == {"encoder_data", "imu_data"}
\* the motor ids of the PID configuration file
Motors == 1..MaxMotors

\* task identifiers: a robot session coroutine or a UI session coroutine
RTask(s) == <<"tcp", s>>
UTask(c) == <<"ws", c>>
NoTask == <<"none", 0>>

VARIABLES
  pid_config_cache,   \* DirectBridge.pid_config_cache: the motors with cached PID values
  \* robot_alias_manager
  ip_port_to_alias, alias_to_ip_port, ip_to_alias, alias_to_ip, next_robot_number,
  mint_log,           \* the "assigned alias" log lines of line 724: <<alias, key>> per mint
  regLock,            \* robot_alias_manager["lock"]: [holder, queue]
  tcp_clients,        \* ConnectionManager._tcp_clients: key -> session owning the writer
  uploads,            \* FirmwareUploadManager._uploads: ip -> [file, path, filesize, received]
  open_files,         \* the file objects opened by FirmwareUploadManager.start and not closed
  next_file,          \* the next file object / temp path FirmwareUploadManager.start creates
  disk,               \* the temp firmware files that exist
  firmware_to_send_path,        \* OTAConnection.firmware_to_send_path, NoPath for None
  ota_server_robot_ip_target,   \* OTAConnection.ota_server_robot_ip_target, "" for None
  ota_conn,           \* per OTA connection: the address and the path it is streaming
  ota_served,         \* per firmware path: the OTA connections that were streamed it
  fw_bytes,           \* per ip: the chunk bytes received since its last upload_firmware_start
  robot_data,         \* TrajectoryCalculator.robot_data: key -> pose state
  latest_imu_data,    \* the keys of DirectBridge._latest_imu_data
  now,                \* what time.time() returns, in seconds
  \* per handle_tcp_client coroutine
  rpc, rkey, ralias, peerGone, bcast,
  trail,              \* per session: what it has emitted since it was accepted, in order
  gather,             \* per session: the asyncio.gather of broadcast_to_all_ui it awaits
  inflight,           \* the frames read and not yet through their send loop, in read order
  \* UI side
  ui_websockets,      \* the global set of UI sockets
  subs,               \* websocket_subscriptions: client -> entity key -> set of data types
  subLock,            \* subscribers_lock: [holder, queue]
  wpc, alive, wcmd,   \* per handle_ws_client coroutine
  subBefore,          \* per client: its last applied subscribe and its entry before it
  cmdsLeft,           \* subscription commands the UI sockets are still to send
  removedOnFailure,   \* sockets removed by the cleanup pass of broadcast_to_subscribers
  out                 \* the sends to UI sockets performed by the step just taken

regVars == <<ip_port_to_alias, alias_to_ip_port, ip_to_alias, alias_to_ip, next_robot_number, mint_log,
             pid_config_cache>>
poseVars == <<robot_data, latest_imu_data, now>>
fwVars == <<uploads, open_files, next_file, disk, firmware_to_send_path, ota_server_robot_ip_target,
           ota_conn, ota_served, fw_bytes>>
tcpVars == <<rpc, rkey, ralias, peerGone, bcast, inflight, trail, gather>>
uiVars == <<ui_websockets, subs, wpc, alive, wcmd, subBefore, cmdsLeft, removedOnFailure>>
vars == <<pid_config_cache, ip_port_to_alias, alias_to_ip_port, ip_to_alias, alias_to_ip, next_robot_number,
          mint_log, regLock, tcp_clients, uploads, open_files, next_file, disk, firmware_to_send_path,
          ota_server_robot_ip_target, ota_conn, ota_served, fw_bytes, robot_data, latest_imu_data, now, rpc, rkey, ralias, peerGone, bcast, inflight, trail, gather,
          ui_websockets, subs, subLock, wpc, alive, wcmd, subBefore, cmdsLeft, removedOnFailure, out>>

\* ------------------------------------------------------------ dictionaries
EmptyMap == [x \in {} |-> ""]
\* d[k] = v
DictSet(d, k, v) == [x \in DOMAIN d \cup {k} |-> IF x = k THEN v ELSE d[x]]
\* del d[k]
DictDel(d, k) == [x \in DOMAIN d \ {k} |-> d[x]]

\* ------------------------------------------------------------ asyncio.Lock
FreeLock == [holder |-> NoTask, queue |-> <<>>]
\* `async with lock`: taken at once when free and nobody waits, else queued
LockAcquire(l, t) ==
  IF l.holder = NoTask /\ l.queue = <<>>
    THEN [l EXCEPT !.holder = t]
    ELSE [l EXCEPT !.queue = Append(@, t)]
LockIdle(l) == l.holder = NoTask /\ l.queue = <<>>
\* faulty variant of LockRelease: the waiter that came last is woken
LockReleaseLast(l) ==
  IF l.queue = <<>>
    THEN [l EXCEPT !.holder = NoTask]
    ELSE [holder |-> l.queue[Len(l.queue)], queue |-> SubSeq(l.queue, 1, Len(l.queue) - 1)]
\* leaving `async with lock`: the first waiter is woken and owns the lock
LockRelease(l) ==
  IF l.queue = <<>>
    THEN [l EXCEPT !.holder = NoTask]
    ELSE [holder |-> Head(l.queue), queue |-> Tail(l.queue)]

\* ---------------------------------------------------------------- registry
\* Faulty variants of the registry operators below; the properties of the
\* registry are required to tell each of them from the operator it replaces.
\* the membership test of line 716 dropped: every connection mints
IsNewKeyAlways(m, key) == TRUE
\* the increment of line 723 dropped
NextNumberStuck(n) == n
\* the lookup of line 726 dropped: current_alias keeps its initial value
ExistingAliasLost(m, key) == NoAlias
\* the test of line 720 dropped: the latest alias of an IP is stored
StoreLatestAlias(m, ip, a) == DictSet(m, ip, a)
\* alias numbers that start over after robot2
NewAliasWrapped(n) == AliasNames[((n - 1) % 2) + 1]

\* line 717: f"robot{next_robot_number}"
NewAlias(n) == AliasNames[n]
IsNewKey(m, key) == key \notin DOMAIN m
NextNumber(n) == n + 1
\* line 726
ExistingAlias(m, key) == m[key]
\* lines 720-722: only the first alias of an IP is stored
StoreFirstAlias(m, ip, a) == IF ip \notin DOMAIN m THEN DictSet(m, ip, a) ELSE m
StoreAliasIp(m, ipm, ip, a) == IF ip \notin DOMAIN ipm THEN DictSet(m, a, ip) ELSE m
\* lines 949-959
RemoveReverse(m, a, key) == IF a \in DOMAIN m /\ m[a] = key THEN DictDel(m, a) ELSE m
IsPrimary(m, ip, a) == ip \in DOMAIN m /\ m[ip] = a
ClearPrimary(m, ip, a) == IF IsPrimary(m, ip, a) THEN DictDel(m, ip) ELSE m
ClearAliasIp(m, ipm, ip, a) == IF IsPrimary(ipm, ip, a) THEN DictDel(m, a) ELSE m

NoCmd == [cmd |-> "", target |-> "", type |-> "", ent |-> ""]
NoBcast == [type |-> "", map |-> {}, failed |-> {}]
\* lines 1232-1237 and 1299-1304: the command that is applied (its name, the
\* target it named, the key e it resolved to, the type T) and the entry of
\* client c as it finds it
Snap(m, c, name, target, e, T) ==
  [cmd |-> name, target |-> target, ent |-> e, type |-> T, had |-> c \in DOMAIN m,
   prior |-> IF c \in DOMAIN m THEN m[c] ELSE EmptyMap, undone |-> FALSE]
NoSnap == [cmd |-> "", target |-> "", ent |-> "", type |-> "", had |-> FALSE, prior |-> EmptyMap,
           undone |-> FALSE]
\* lines 1258-1265: an unsubscribe for (e, T) is applied; it undoes the
\* subscribe recorded in b when it names the same entity and type
Undo(b, e, T) ==
  IF b.ent = e /\ b.type = T /\ ~b.undone THEN [b EXCEPT !.undone = TRUE] ELSE NoSnap
NoOut == [kind |-> "none", src |-> NoAlias, type |-> "", to |-> {},
          calls |-> [c \in Clients |-> 0], got |-> [c \in Clients |-> 0]]

\* a reply sent to UI socket c alone: kind "error" or "ack" for command what
ReplyOut(kind, c, what, ok) ==
  [kind |-> kind, src |-> NoAlias, type |-> what, to |-> {c},
   calls |-> [x \in Clients |-> IF x = c THEN 1 ELSE 0],
   got |-> [x \in Clients |-> IF x = c /\ ok THEN 1 ELSE 0]]

\* None for a firmware path
NoPath == 0
NoOta == [ip |-> "", path |-> NoPath]
\* the OTA connections that can be open at once
OtaConns == 1..MaxOta
\* lines 498-501 and 348-352: no upload, no firmware armed
NoFirmware ==
  /\ uploads = EmptyMap
  /\ open_files = {}
  /\ next_file = 1
  /\ disk = {}
  /\ firmware_to_send_path = NoPath
  /\ ota_server_robot_ip_target = ""
  /\ ota_conn = [k \in OtaConns |-> NoOta]
  /\ ota_served = [p \in 1..MaxUploads |-> 0]
  /\ fw_bytes = [ip \in IPs |-> 0]

\* no gather awaited
NoGather == [n |-> 0, failed |-> 0]

\* line 769: f"MOTOR:{motor_id} Kp:... Ki:... Kd:..."
PidLine(m) == <<"MOTOR:1", "MOTOR:2", "MOTOR:3", "MOTOR:4">>[m]
\* lines 768-773: one line per motor of the cache, in the order of the cache
RECURSIVE PidLines(_)
PidLines(cache) ==
  IF cache = {} THEN <<>>
  ELSE LET m == CHOOSE x \in cache : \A y \in cache : x <= y
       IN <<PidLine(m)>> \o PidLines(cache \ {m})
\* lines 745-780: what the session writes to the robot before the announcement
GreetLines(cache) == <<"status_ack", "connection_ack">> \o PidLines(cache)

\* ---------------------------------------------------------------- initial
\* lines 547-562 and 675-690: the bridge is constructed and start() has read
\* the PID configuration file into the cache
Started(cache) ==
  /\ pid_config_cache = cache
  /\ ip_port_to_alias = EmptyMap
  /\ alias_to_ip_port = EmptyMap
  /\ ip_to_alias = EmptyMap
  /\ alias_to_ip = EmptyMap
  /\ next_robot_number = 1
  /\ mint_log = <<>>
  /\ regLock = FreeLock
  /\ tcp_clients = EmptyMap
  /\ robot_data = EmptyMap
  /\ latest_imu_data = {}
  /\ now = 1
  /\ NoFirmware
  /\ rpc = [s \in Conns |-> "idle"]
  /\ rkey = [s \in Conns |-> NoKey]
  /\ ralias = [s \in Conns |-> NoAlias]
  /\ peerGone = [s \in Conns |-> FALSE]
  /\ gather = [s \in Conns |-> NoGather]
  /\ bcast = [s \in Conns |-> NoBcast]
  /\ inflight = <<>>
  /\ trail = [s \in Conns |-> <<>>]
  /\ ui_websockets = {}
  /\ subs = EmptyMap
  /\ subLock = FreeLock
  /\ wpc = [c \in Clients |-> "idle"]
  /\ alive = [c \in Clients |-> FALSE]
  /\ wcmd = [c \in Clients |-> NoCmd]
  /\ subBefore = [c \in Clients |-> NoSnap]
  /\ cmdsLeft = MaxCmds
  /\ removedOnFailure = {}
  /\ out = NoOut

\* no PID configuration file is found: the cache stays as constructed
Init == Started({})

\* ------------------------------------------------- handle_tcp_client steps
\* sessions whose coroutine has been started and has not yet returned
Running(s) == rpc[s] # "idle"
\* aliases still to be minted by connections accepted but not yet registered
PendingMints == Cardinality({s \in Conns : rpc[s] = "reg_wait"})

\* ConnectionManager.set_tcp_client / remove_tcp_client
SetTcpClient(m, key, s) == DictSet(m, key, s)
RemoveTcpClient(m, key) == IF key \in DOMAIN m THEN DictDel(m, key) ELSE m

\* lines 715-741: the registration block under the lock, then
\* ConnectionManager.set_tcp_client; the coroutine goes on to its first write
RegisterBody(s, key) ==
  /\ LET ip == key[1]
         a == NewAlias(next_robot_number)
     IN IF IsNewKey(ip_port_to_alias, key)
          THEN /\ ip_port_to_alias' = DictSet(ip_port_to_alias, key, a)
               /\ alias_to_ip_port' = DictSet(alias_to_ip_port, a, key)
               /\ ip_to_alias' = StoreFirstAlias(ip_to_alias, ip, a)
               /\ alias_to_ip' = StoreAliasIp(alias_to_ip, ip_to_alias, ip, a)
               /\ next_robot_number' = NextNumber(next_robot_number)
               /\ mint_log' = Append(mint_log, <<a, key>>)
               /\ ralias' = [ralias EXCEPT ![s] = a]
               /\ UNCHANGED pid_config_cache
          ELSE /\ ralias' = [ralias EXCEPT ![s] = ExistingAlias(ip_port_to_alias, key)]
               /\ UNCHANGED regVars
  /\ tcp_clients' = SetTcpClient(tcp_clients, key, s)
  /\ UNCHANGED <<poseVars, fwVars>>
  /\ rpc' = [rpc EXCEPT ![s] = "greet"]

\* asyncio.start_server accepts a connection from peer `key` and starts the
\* coroutine (lines 708-715).  A second connection from the (ip,port) of a
\* running session means that the earlier socket is half-closed: its peer is
\* gone.
TcpAccept(s, key) ==
  /\ rpc[s] = "idle"
  /\ next_robot_number + PendingMints <= MaxAlias
  /\ rkey' = [rkey EXCEPT ![s] = key]
  /\ peerGone' = [x \in Conns |-> IF x # s /\ Running(x) /\ rkey[x] = key THEN TRUE ELSE peerGone[x]]
  /\ IF LockIdle(regLock)
       THEN /\ RegisterBody(s, key)
            /\ UNCHANGED regLock
       ELSE /\ regLock' = LockAcquire(regLock, RTask(s))
            /\ rpc' = [rpc EXCEPT ![s] = "reg_wait"]
            /\ UNCHANGED <<regVars, tcp_clients, poseVars, fwVars, ralias>>
  /\ out' = NoOut
  /\ trail' = [trail EXCEPT ![s] = <<>>]
  /\ UNCHANGED <<bcast, inflight, gather, uiVars, subLock>>

\* the registration block of a connection that had to wait for the lock
Register(s) ==
  /\ rpc[s] = "reg_wait"
  /\ regLock.holder = RTask(s)
  /\ RegisterBody(s, rkey[s])
  /\ regLock' = LockRelease(regLock)
  /\ out' = NoOut
  /\ UNCHANGED <<rkey, peerGone, trail, gather, bcast, inflight, uiVars, subLock>>

\* lines 745-780: the two acknowledgement lines and the cached PID lines are
\* written to the robot; write errors are logged and ignored
Greet(s) ==
  /\ rpc[s] = "greet"
  /\ rpc' = [rpc EXCEPT ![s] = "announce"]
  /\ trail' = [trail EXCEPT ![s] = @ \o GreetLines(pid_config_cache)]
  /\ out' = NoOut
  /\ UNCHANGED <<regVars, regLock, tcp_clients, poseVars, fwVars, rkey, ralias, peerGone, bcast, inflight, gather, uiVars, subLock>>

\* broadcast_to_all_ui (lines 57-70): one send per socket of the UI set
AllUiResult(action, a) ==
  [kind |-> action, src |-> a, type |-> "available_robot_update", to |-> ui_websockets,
   calls |-> [c \in Clients |-> IF c \in ui_websockets THEN 1 ELSE 0],
   got |-> [c \in Clients |-> IF c \in ui_websockets /\ alive[c] THEN 1 ELSE 0]]
\* lines 63-70: what a failed send does to the UI set: it is logged
AfterAllUi(ui, failed) == ui

\* lines 782-796
AnnounceAdd(s) ==
  /\ rpc[s] = "announce"
  /\ out' = AllUiResult("add", ralias[s])
  /\ ui_websockets' = AfterAllUi(ui_websockets, {c \in ui_websockets : ~alive[c]})
  /\ rpc' = [rpc EXCEPT ![s] = "read"]
  /\ trail' = [trail EXCEPT ![s] = Append(@, "add")]
  /\ UNCHANGED <<regVars, regLock, tcp_clients, poseVars, fwVars, rkey, ralias, peerGone, bcast, inflight, gather,
                 subs, wpc, alive, wcmd, subBefore, cmdsLeft, removedOnFailure, subLock>>

\* lines 948-964: the alias clean-up under the lock
UnregisterBody(s) ==
  /\ LET key == rkey[s]
         ip == key[1]
     IN IF key \in DOMAIN ip_port_to_alias
          THEN LET a == ip_port_to_alias[key]
               IN /\ ip_port_to_alias' = DictDel(ip_port_to_alias, key)
                  /\ alias_to_ip_port' = RemoveReverse(alias_to_ip_port, a, key)
                  /\ ip_to_alias' = ClearPrimary(ip_to_alias, ip, a)
                  /\ alias_to_ip' = ClearAliasIp(alias_to_ip, ip_to_alias, ip, a)
                  /\ ralias' = [ralias EXCEPT ![s] = a]
                  /\ UNCHANGED <<next_robot_number, mint_log, pid_config_cache>>
          ELSE UNCHANGED <<regVars, ralias>>
  /\ rpc' = [rpc EXCEPT ![s] = "announce_rm"]

\* lines 809-816 and 941-948: readline returns EOF, times out or raises; the
\* finally block drops the ConnectionManager entry and the latest telemetry
\* kept for the key, and cleans the registry
RobotEof(s) ==
  /\ rpc[s] = "read"
  /\ tcp_clients' = RemoveTcpClient(tcp_clients, rkey[s])
  /\ latest_imu_data' = latest_imu_data \ {rkey[s]}
  /\ UNCHANGED <<robot_data, now, fwVars>>
  /\ IF LockIdle(regLock)
       THEN /\ UnregisterBody(s)
            /\ UNCHANGED regLock
       ELSE /\ regLock' = LockAcquire(regLock, RTask(s))
            /\ rpc' = [rpc EXCEPT ![s] = "unreg_wait"]
            /\ UNCHANGED <<regVars, ralias>>
  /\ out' = NoOut
  /\ UNCHANGED <<rkey, peerGone, trail, gather, bcast, inflight, uiVars, subLock>>

\* the alias clean-up of a session that had to wait for the lock
Unregister(s) ==
  /\ rpc[s] = "unreg_wait"
  /\ regLock.holder = RTask(s)
  /\ UnregisterBody(s)
  /\ regLock' = LockRelease(regLock)
  /\ out' = NoOut
  /\ UNCHANGED <<tcp_clients, poseVars, fwVars, rkey, peerGone, trail, gather, bcast, inflight, uiVars, subLock>>

\* lines 966-985: the remove event, then the writer is closed and the
\* coroutine returns
AnnounceRemove(s) ==
  /\ rpc[s] = "announce_rm"
  /\ out' = AllUiResult("remove", ralias[s])
  /\ ui_websockets' = AfterAllUi(ui_websockets, {c \in ui_websockets : ~alive[c]})
  /\ rpc' = [rpc EXCEPT ![s] = "idle"]
  /\ rkey' = [rkey EXCEPT ![s] = NoKey]
  /\ ralias' = [ralias EXCEPT ![s] = NoAlias]
  /\ peerGone' = [peerGone EXCEPT ![s] = FALSE]
  /\ bcast' = [bcast EXCEPT ![s] = NoBcast]
  /\ trail' = [trail EXCEPT ![s] = <<>>]
  /\ UNCHANGED <<inflight, gather, regVars, regLock, tcp_clients, poseVars, fwVars, subs, wpc, alive, wcmd, subBefore, cmdsLeft,
                 removedOnFailure, subLock>>

\* ------------------------------------------------------ TrajectoryCalculator
\* lines 88-96: the pose state a key starts with; x stands for the position,
\* path for the length of path_history
FreshPose ==
  [x |-> 0, path |-> 0, last_timestamp_encoder |-> "None", latest_imu_data |-> FALSE,
   latest_encoder_data |-> FALSE]
\* lines 86-96
EnsureRobotData(m, key) == IF key \notin DOMAIN m THEN DictSet(m, key, FreshPose) ELSE m
\* lines 133-226; ok: both samples are fresh and the encoder sample holds
\* three RPM values; adv: its timestamp is later than last_timestamp_encoder
TryCalculateTrajectory(p, ok, adv) ==
  IF ~p.latest_imu_data \/ ~p.latest_encoder_data \/ ~ok
    THEN p
    ELSE IF p.last_timestamp_encoder = "None"
           THEN [p EXCEPT !.last_timestamp_encoder = "set", !.path = IF @ = 0 THEN 1 ELSE @]
           ELSE IF adv THEN [p EXCEPT !.x = @ + 1, !.path = @ + 1] ELSE p
\* lines 98-117: the sample is stored; the encoder sample is still the one
\* of the last calculation, its timestamp has not advanced
UpdateImuData(m, key, ok) ==
  LET e == EnsureRobotData(m, key)
  IN [e EXCEPT ![key] = TryCalculateTrajectory([@ EXCEPT !.latest_imu_data = TRUE], ok, FALSE)]
\* lines 122-131
UpdateEncoderData(m, key, ok, adv) ==
  LET e == EnsureRobotData(m, key)
  IN [e EXCEPT ![key] = TryCalculateTrajectory([@ EXCEPT !.latest_encoder_data = TRUE], ok, adv)]

\* lines 806-840 and 905-912: an imu_data line is read while no UI socket is
\* subscribed: the broadcast sends nothing and the sample reaches the
\* trajectory calculator
ImuFrame(s, ok) ==
  /\ rpc[s] = "read"
  /\ ~peerGone[s]
  /\ DOMAIN subs = {}
  /\ latest_imu_data' = latest_imu_data \cup {rkey[s]}
  /\ robot_data' = UpdateImuData(robot_data, rkey[s], ok)
  /\ out' = NoOut
  /\ UNCHANGED <<regVars, regLock, tcp_clients, fwVars, now, tcpVars, uiVars, subLock>>

\* lines 806-880: an encoder_data line is read while no UI socket is
\* subscribed; valid: the line carries three RPM values and a timestamp
EncoderFrame(s, valid, ok, adv) ==
  /\ rpc[s] = "read"
  /\ ~peerGone[s]
  /\ DOMAIN subs = {}
  /\ rkey[s] \in DOMAIN robot_data => robot_data[rkey[s]].x < MaxSteps
  /\ robot_data' =
       IF valid
         THEN UpdateEncoderData(IF rkey[s] \in latest_imu_data
                                  THEN UpdateImuData(robot_data, rkey[s], ok) ELSE robot_data,
                                rkey[s], ok, adv)
         ELSE robot_data
  /\ out' = NoOut
  /\ UNCHANGED <<regVars, regLock, tcp_clients, fwVars, latest_imu_data, now, tcpVars, uiVars, subLock>>

\* ------------------------------- TrajectoryCalculator, with its arithmetic
\* The pose of a key with its coordinates, heading, timestamps and path.
\* Coordinates and speeds are integers; a heading counts quarter turns, so
\* that cos and sin are exact.
MAX_TRAJECTORY_POINTS_DEFAULT == 1000
NoTime == 0
NoYaw == 0 - 1
NoSample == [none |-> TRUE]
Cos(h) == <<1, 0, 0 - 1, 0>>[(h % 4) + 1]
Sin(h) == <<0, 1, 0, 0 - 1>>[(h % 4) + 1]

\* lines 86-96; appended counts the points ever appended to path_history and
\* frames the samples received, each path point carries its number n;
\* imu_frame_at is the time the session handler last read an imu_data line
FreshState ==
  [x |-> 0, y |-> 0, theta |-> 0, last_timestamp_encoder |-> NoTime, path_history |-> <<>>,
   latest_imu_data |-> NoSample, latest_encoder_data |-> NoSample,
   last_imu_timestamp |-> NoTime, last_encoder_timestamp |-> NoTime,
   appended |-> 0, frames |-> 0, imu_frame_at |-> NoTime]
StateOf(m, key) == IF key \in DOMAIN m THEN m[key] ELSE FreshState

\* a calculator that integrates the first sample from time zero
IsFirstTimeNever(p) == FALSE
\* line 181
IsFirstTime(p) == p.last_timestamp_encoder = NoTime

\* a calculator that integrates whatever the time difference is
TimeAdvancedAlways(dt) == TRUE
\* line 194: dt <= 0 returns early
TimeAdvanced(dt) == dt > 0

\* a calculator that never trims the path
LimitPathOff(path) == path
\* lines 225-227: path_history[-MAX_TRAJECTORY_POINTS_DEFAULT:]
LimitPath(path) ==
  IF Len(path) > MAX_TRAJECTORY_POINTS_DEFAULT
    THEN SubSeq(path, Len(path) - MAX_TRAJECTORY_POINTS_DEFAULT + 1, Len(path))
    ELSE path

Point(p) == [x |-> p.x, y |-> p.y, theta |-> p.theta, n |-> p.appended + 1]

\* lines 133-231: _try_calculate_trajectory; stale: one of the two samples
\* is more than 5 s old (lines 151-159)
Calculate(p, stale) ==
  LET imu == p.latest_imu_data
      enc == p.latest_encoder_data
  IN IF imu = NoSample \/ enc = NoSample \/ stale THEN p
     ELSE IF ~enc.rpms THEN p
     ELSE LET current_heading_rad == IF imu.yaw # NoYaw THEN imu.yaw ELSE p.theta
          IN IF IsFirstTime(p)
               THEN LET q == [p EXCEPT !.last_timestamp_encoder = enc.ts,
                                       !.theta = current_heading_rad]
                    IN IF q.path_history = <<>>
                         THEN [q EXCEPT !.path_history = <<Point(q)>>, !.appended = @ + 1]
                         ELSE q
               ELSE LET dt == enc.ts - p.last_timestamp_encoder
                    IN IF ~TimeAdvanced(dt)
                         THEN [p EXCEPT !.theta = current_heading_rad]
                         ELSE LET q == [p EXCEPT !.last_timestamp_encoder = enc.ts,
                                                 !.x = @ + enc.v * Cos(p.theta) * dt,
                                                 !.y = @ + enc.v * Sin(p.theta) * dt,
                                                 !.theta = current_heading_rad]
                              IN [q EXCEPT !.path_history = LimitPath(Append(@, Point(q))),
                                           !.appended = @ + 1]

\* lines 98-117: update_imu_data; yaw: the heading of the sample, NoYaw when
\* it carries neither yaw nor euler
ImuSample(p, yaw, stale) ==
  Calculate([p EXCEPT !.theta = IF yaw # NoYaw THEN yaw ELSE @,
                      !.latest_imu_data = [yaw |-> yaw],
                      !.frames = @ + 1], stale)

\* lines 122-131: update_encoder_data; ts: the timestamp of the sample, rpms:
\* it holds three RPM values, v: the speed they amount to
EncoderSample(p, ts, rpms, v, stale) ==
  Calculate([p EXCEPT !.latest_encoder_data = [ts |-> ts, rpms |-> rpms, v |-> v],
                      !.frames = @ + 1], stale)

\* what the calculator was fed for key
PoseOut(kind, key) == [NoOut EXCEPT !.kind = kind, !.src = key]

\* update_imu_data(key, sample) is called, budget: the samples the key may
\* have fed before
TrajImu(key, yaw, stale, budget) ==
  /\ StateOf(robot_data, key).frames < budget
  /\ robot_data' = DictSet(robot_data, key, ImuSample(StateOf(robot_data, key), yaw, stale))
  /\ out' = PoseOut("pose_imu", key)
  /\ UNCHANGED <<regVars, regLock, tcp_clients, fwVars, latest_imu_data, now, tcpVars, uiVars, subLock>>

\* update_encoder_data(key, sample) is called
TrajEncoder(key, ts, rpms, v, stale, budget) ==
  /\ StateOf(robot_data, key).frames < budget
  /\ robot_data' = DictSet(robot_data, key,
                           EncoderSample(StateOf(robot_data, key), ts, rpms, v, stale))
  /\ out' = PoseOut("pose_encoder", key)
  /\ UNCHANGED <<regVars, regLock, tcp_clients, fwVars, latest_imu_data, now, tcpVars, uiVars, subLock>>

\* line 32: the wheel radius 0.0325 m, in tenths of a millimetre
WHEEL_RADIUS_DEFAULT == 325
\* lines 119-120: rpm * (2 * pi) / 60.0, in units of pi/60 rad/s
RpmToOmega(rpm) == rpm * 2
\* a kinematics that reads the first wheel only
VxRobotFirstWheel(rpms) == WHEEL_RADIUS_DEFAULT * RpmToOmega(rpms[1])
\* lines 204-207: WHEEL_RADIUS_DEFAULT * (omega_m1 + omega_m2 + omega_m3) / 3.0;
\* the speed, and with it every coordinate fed from it, counts units of
\* pi / 1 800 000 metres (1e-4 * pi/60 / 3), so that the division is exact
VxRobot(rpms) ==
  WHEEL_RADIUS_DEFAULT * (RpmToOmega(rpms[1]) + RpmToOmega(rpms[2]) + RpmToOmega(rpms[3]))

\* update_encoder_data(key, {"timestamp": ts, "data": data}) is called; line
\* 167: the RPMs count when data is a list of three
TrajEncoderData(key, ts, data, budget) ==
  /\ StateOf(robot_data, key).frames < budget
  /\ robot_data' = DictSet(robot_data, key,
                           EncoderSample(StateOf(robot_data, key), ts, Len(data) = 3,
                                         IF Len(data) = 3 THEN VxRobot(data) ELSE 0, FALSE))
  /\ out' = PoseOut("pose_encoder", key) @@ [data |-> data]
  /\ UNCHANGED <<regVars, regLock, tcp_clients, fwVars, latest_imu_data, now, tcpVars, uiVars, subLock>>

\* ------------------------------ the calculator behind the session handler
\* line 153
MaxDataAge == 5
\* lines 154-157: a sample that never arrived is infinitely old
DataTooOld(p, t) ==
  \/ p.last_imu_timestamp = NoTime \/ t - p.last_imu_timestamp > MaxDataAge
  \/ p.last_encoder_timestamp = NoTime \/ t - p.last_encoder_timestamp > MaxDataAge

\* line 164: encoder_data.get("timestamp", current_time); a sample without
\* a payload timestamp is kept with ts = NoTime
StampAt(enc, t) == IF enc.ts = NoTime THEN t ELSE enc.ts

\* lines 133-231 at time t
CalculateAt(p, t) ==
  LET enc == p.latest_encoder_data
      r == IF enc = NoSample THEN p ELSE [p EXCEPT !.latest_encoder_data.ts = StampAt(enc, t)]
      c == Calculate(r, DataTooOld(p, t))
  IN [c EXCEPT !.latest_encoder_data = enc]

\* lines 98-117 at time t
UpdateImuAt(p, yaw, t) ==
  CalculateAt([p EXCEPT !.theta = IF yaw # NoYaw THEN yaw ELSE @,
                        !.latest_imu_data = [yaw |-> yaw],
                        !.last_imu_timestamp = t], t)

\* lines 122-131 at time t; data: the list under "data"
UpdateEncoderAt(p, ts, data, t) ==
  CalculateAt([p EXCEPT !.latest_encoder_data =
                          [ts |-> ts, rpms |-> Len(data) = 3,
                           v |-> IF Len(data) = 3 THEN VxRobot(data) ELSE 0],
                        !.last_encoder_timestamp = t], t)

\* lines 806-840 and 904-929: a bno055 line is read while no UI socket is
\* subscribed; euler: data.euler[2], NoYaw when the line carries no euler
\* list: len(None) at line 106 raises after _ensure_robot_data and the frame
\* is dropped by the except of line 933
ImuLine(s, euler) ==
  /\ rpc[s] = "read"
  /\ ~peerGone[s]
  /\ DOMAIN subs = {}
  /\ latest_imu_data' = latest_imu_data \cup {rkey[s]}
  /\ LET p == StateOf(robot_data, rkey[s])
     IN robot_data' = DictSet(robot_data, rkey[s],
                              IF euler = NoYaw THEN p
                              ELSE [UpdateImuAt(p, euler, now) EXCEPT !.imu_frame_at = now])
  /\ out' = PoseOut("imu_line", rkey[s])
  /\ UNCHANGED <<regVars, regLock, tcp_clients, fwVars, now, tcpVars, uiVars, subLock>>

\* lines 806-899: an encoder line is read while no UI socket is subscribed;
\* ts: its payload timestamp, NoTime when it has none. Line 852 lets lists
\* of three and more through; line 872 feeds the calculator the stored
\* imu_data message, which has neither yaw nor euler at its top level, and
\* line 876 the line as the robot sent it
EncoderLine(s, ts, data) ==
  /\ rpc[s] = "read"
  /\ ~peerGone[s]
  /\ DOMAIN subs = {}
  /\ LET p == StateOf(robot_data, rkey[s])
         q == IF rkey[s] \in latest_imu_data THEN UpdateImuAt(p, NoYaw, now) ELSE p
     IN robot_data' = IF Len(data) >= 3
                        THEN DictSet(robot_data, rkey[s], UpdateEncoderAt(q, ts, data, now))
                        ELSE robot_data
  /\ out' = PoseOut("encoder_line", rkey[s])
  /\ UNCHANGED <<regVars, regLock, tcp_clients, fwVars, latest_imu_data, now, tcpVars, uiVars, subLock>>

\* time passes
Tick(d) ==
  /\ now + d <= MaxClock
  /\ now' = now + d
  /\ out' = NoOut
  /\ UNCHANGED <<regVars, regLock, tcp_clients, fwVars, robot_data, latest_imu_data, tcpVars,
                 uiVars, subLock>>

\* ------------------------------------------- UI commands that target a robot
\* dict.get(k, d)
DictGet(m, k, d) == IF k \in DOMAIN m THEN m[k] ELSE d
NoIp == ""

\* lines 1129-1133: the first key of the registry that starts with the address
FirstKeyOf(ip) ==
  IF \E k \in DOMAIN ip_port_to_alias : k[1] = ip
    THEN CHOOSE k \in DOMAIN ip_port_to_alias : k[1] = ip
    ELSE NoKey

\* lines 1399-1407, 1465-1468: the key of the primary alias of an address
KeyOfIp(ip) ==
  LET primary == DictGet(ip_to_alias, ip, NoAlias)
  IN IF primary # NoAlias THEN DictGet(alias_to_ip_port, primary, NoKey) ELSE NoKey

\* lines 1118-1135: send_to_robot looks the address up first and the alias
\* only when the address gave nothing
ResolveSendToRobot(ip, a) ==
  LET byIp == IF ip = NoIp THEN NoKey
              ELSE IF KeyOfIp(ip) # NoKey THEN KeyOfIp(ip) ELSE FirstKeyOf(ip)
  IN IF byIp # NoKey THEN byIp
     ELSE IF a # NoAlias THEN DictGet(alias_to_ip_port, a, NoKey) ELSE NoKey

\* lines 1399-1412: upgrade_signal looks at the alias only when no address came
ResolveUpgradeSignal(ip, a) ==
  IF ip # NoIp THEN KeyOfIp(ip)
  ELSE IF a # NoAlias THEN DictGet(alias_to_ip_port, a, NoKey) ELSE NoKey

\* lines 1456-1468: trigger_robot_pid_task looks at the address only when no
\* alias came
ResolveTriggerPidTask(ip, a) ==
  IF a # NoAlias THEN DictGet(alias_to_ip_port, a, NoKey)
  ELSE IF ip # NoIp THEN KeyOfIp(ip) ELSE NoKey

\* lines 1375-1380: the address load_pid_config hands to the loader
ResolveLoadPidConfig(ip, a) ==
  IF a # NoAlias THEN DictGet(alias_to_ip, a, NoIp) ELSE ip

\* what a command handler sent back: kind is the envelope type ("no_reply"
\* when nothing is sent), type the status; the command, the address and the
\* alias it named are kept with it
CmdReply(kind, c, cmd, status, ip, a) ==
  [kind |-> kind, src |-> NoAlias, type |-> status, to |-> IF kind = "no_reply" THEN {} ELSE {c},
   calls |-> [x \in Clients |-> IF x = c /\ kind # "no_reply" THEN 1 ELSE 0],
   got |-> [x \in Clients |-> IF x = c /\ kind # "no_reply" /\ alive[c] THEN 1 ELSE 0],
   cmd |-> cmd, ip |-> ip, alias |-> a]

\* writer.write(line) on the writer ConnectionManager holds for key
WriteTo(key, line) == [trail EXCEPT ![tcp_clients[key]] = Append(@, line)]

\* A command handler takes the registry lock before it resolves its target;
\* it is described from the moment it owns the lock.
CommandStart(c) ==
  /\ wpc[c] = "loop"
  /\ cmdsLeft > 0
  /\ LockIdle(regLock)
  /\ cmdsLeft' = cmdsLeft - 1
  /\ UNCHANGED <<regVars, regLock, tcp_clients, poseVars, fwVars, subLock>>
  /\ UNCHANGED <<rpc, rkey, ralias, peerGone, bcast, inflight, gather>>
  /\ UNCHANGED <<ui_websockets, subs, wpc, alive, wcmd, subBefore, removedOnFailure>>

\* lines 1108-1205: `send_to_robot`; p: the payload ("none": missing,
\* "pid_values", "pid_bad": pid_values without a gain, "json": any other);
\* ok: drain() returned
WsSendToRobot(c, ip, a, p, ok) ==
  /\ CommandStart(c)
  /\ LET key == ResolveSendToRobot(ip, a)
     IN IF p = "none" \/ key = NoKey \/ key \notin DOMAIN tcp_clients \/ p = "pid_bad"
          THEN /\ out' = CmdReply("command_response", c, "send_to_robot", "error", ip, a)
               /\ UNCHANGED trail
          ELSE /\ trail' = WriteTo(key, p)
               /\ out' = CmdReply("command_response", c, "send_to_robot",
                                  IF ok THEN "sent_to_robot" ELSE "error", ip, a)

\* lines 1390-1450: `upgrade_signal`
WsUpgradeSignal(c, ip, a, ok) ==
  /\ CommandStart(c)
  /\ LET key == ResolveUpgradeSignal(ip, a)
     IN IF key = NoKey \/ key \notin DOMAIN tcp_clients
          THEN /\ out' = CmdReply("error", c, "upgrade_signal", "", ip, a)
               /\ UNCHANGED trail
          ELSE /\ trail' = WriteTo(key, "Upgrade")
               /\ out' = CmdReply("command_response", c, "upgrade_signal",
                                  IF ok THEN "success" ELSE "error", ip, a)

\* lines 1452-1517: `trigger_robot_pid_task`
WsTriggerRobotPidTask(c, ip, a, ok) ==
  /\ CommandStart(c)
  /\ LET key == ResolveTriggerPidTask(ip, a)
     IN IF key = NoKey \/ key \notin DOMAIN tcp_clients
          THEN /\ out' = CmdReply("command_response", c, "trigger_robot_pid_task", "error", ip, a)
               /\ UNCHANGED trail
          ELSE /\ trail' = WriteTo(key, "Set PID")
               /\ out' = CmdReply("command_response", c, "trigger_robot_pid_task",
                                  IF ok THEN "success" ELSE "error", ip, a)

\* lines 1372-1388 with load_pid_config_from_file (590-653); file: the motors
\* the PID file configures. With a connected target the loader reads
\* conn_tuple.writer (line 636) of the plain (reader, writer) tuple stored at
\* line 736: the AttributeError leaves the handler through the except of line
\* 1583, which answers with a server error. Otherwise nothing is sent.
WsLoadPidConfig(c, ip, a, file) ==
  /\ CommandStart(c)
  /\ UNCHANGED trail
  /\ LET to == ResolveLoadPidConfig(ip, a)
     IN IF to = NoIp
          THEN out' = CmdReply("error", c, "load_pid_config", "", ip, a)
          ELSE IF file # {} /\ KeyOfIp(to) # NoKey /\ KeyOfIp(to) \in DOMAIN tcp_clients
                 THEN out' = CmdReply("error", c, "load_pid_config", "server_error", ip, a)
                 ELSE out' = CmdReply("no_reply", c, "load_pid_config", "", ip, a)

\* lines 1342-1370: `request_trajectory`. Line 1345 reads
\* self.trajectory_calculator.max_points, which TrajectoryCalculator (73-226)
\* never defines: the AttributeError is answered by the except of line 1583
WsRequestTrajectory(c, ip, a) ==
  /\ CommandStart(c)
  /\ UNCHANGED trail
  /\ out' = CmdReply("error", c, "request_trajectory", "server_error", ip, a)

\* ------------------------------------------- firmware staging and OTA server
\* an upload manager whose start keeps the byte count of the upload it replaces
UploadStartKeepsCount(m, ip, f, size) ==
  DictSet(m, ip, [file |-> f, path |-> f, filesize |-> size,
                  received |-> IF ip \in DOMAIN m THEN m[ip].received ELSE 0])

\* lines 503-512: FirmwareUploadManager.start; f: the file object opened,
\* which stands for its path as well
UploadStart(m, ip, f, size) ==
  DictSet(m, ip, [file |-> f, path |-> f, filesize |-> size, received |-> 0])

\* lines 514-522: add_chunk of n decoded bytes
UploadAddChunk(m, ip, n) ==
  IF ip \in DOMAIN m THEN [m EXCEPT ![ip].received = @ + n] ELSE m

\* a finish that hands out the path whatever was received
UploadFinishAlways(m, ip) == IF ip \in DOMAIN m THEN m[ip].path ELSE NoPath

\* lines 524-534: what finish returns, NoPath for None
UploadFinish(m, ip) ==
  IF ip \in DOMAIN m /\ m[ip].received = m[ip].filesize THEN m[ip].path ELSE NoPath

\* lines 528-529: finish pops the upload and closes its file
UploadPop(m, ip) == IF ip \in DOMAIN m THEN DictDel(m, ip) ELSE m
UploadClose(files, m, ip) == IF ip \in DOMAIN m THEN files \ {m[ip].file} ELSE files

\* the file objects some upload refers to
Referenced(m) == {m[ip].file : ip \in DOMAIN m}

\* lines 1518-1523: `upload_firmware_start`; the file object of an upload in
\* progress for the same ip loses its last reference and is not closed
WsUploadFirmwareStart(c, ip, size) ==
  /\ wpc[c] = "loop"
  /\ next_file <= MaxUploads
  /\ uploads' = UploadStart(uploads, ip, next_file, size)
  /\ open_files' = open_files \cup {next_file}
  /\ disk' = disk \cup {next_file}
  /\ next_file' = next_file + 1
  /\ fw_bytes' = [fw_bytes EXCEPT ![ip] = 0]
  /\ out' = ReplyOut("ack", c, "upload_started", alive[c])
  /\ UNCHANGED <<firmware_to_send_path, ota_server_robot_ip_target, ota_conn, ota_served>>
  /\ UNCHANGED <<regVars, regLock, tcp_clients, poseVars, tcpVars, uiVars, subLock>>

\* the garbage collector finalizes a file object nothing refers to
CollectFile(f) ==
  /\ f \in open_files \ Referenced(uploads)
  /\ open_files' = open_files \ {f}
  /\ out' = NoOut
  /\ UNCHANGED <<uploads, next_file, disk, firmware_to_send_path, ota_server_robot_ip_target,
                 ota_conn, ota_served, fw_bytes>>
  /\ UNCHANGED <<regVars, regLock, tcp_clients, poseVars, tcpVars, uiVars, subLock>>

\* lines 1525-1534: `firmware_data_chunk` of n decoded bytes
WsFirmwareDataChunk(c, ip, n) ==
  /\ wpc[c] = "loop"
  /\ fw_bytes[ip] + n <= MaxSize + 1
  /\ ip \in DOMAIN uploads => uploads[ip].received + n <= MaxSize + 1
  /\ uploads' = UploadAddChunk(uploads, ip, n)
  /\ fw_bytes' = [fw_bytes EXCEPT ![ip] = @ + n]
  /\ out' = ReplyOut("firmware_chunk_ack", c, "", alive[c])
  /\ UNCHANGED <<open_files, next_file, disk, firmware_to_send_path, ota_server_robot_ip_target,
                 ota_conn, ota_served>>
  /\ UNCHANGED <<regVars, regLock, tcp_clients, poseVars, tcpVars, uiVars, subLock>>

\* lines 355-362: prepare_firmware_for_send
ArmPath(path) == IF path \in disk THEN path ELSE firmware_to_send_path
ArmTarget(path, ip) == IF path \in disk THEN ip ELSE ota_server_robot_ip_target

\* lines 1536-1553: `upload_firmware_end`
WsUploadFirmwareEnd(c, ip) ==
  /\ wpc[c] = "loop"
  /\ LET fw_path == UploadFinish(uploads, ip)
     IN /\ uploads' = UploadPop(uploads, ip)
        /\ open_files' = UploadClose(open_files, uploads, ip)
        /\ IF fw_path # NoPath
             THEN /\ firmware_to_send_path' = ArmPath(fw_path)
                  /\ ota_server_robot_ip_target' = ArmTarget(fw_path, ip)
                  /\ out' = [ReplyOut("firmware_prepared_for_ota", c, "success", alive[c]) EXCEPT !.src = ip]
             ELSE /\ UNCHANGED <<firmware_to_send_path, ota_server_robot_ip_target>>
                  /\ out' = [ReplyOut("error", c, "upload_finish", alive[c]) EXCEPT !.src = ip]
  /\ UNCHANGED <<next_file, disk, ota_conn, ota_served, fw_bytes>>
  /\ UNCHANGED <<regVars, regLock, tcp_clients, poseVars, tcpVars, uiVars, subLock>>

\* what the OTA server did for the connection of the robot at address ip
OtaOut(kind, ip) == [NoOut EXCEPT !.kind = kind, !.src = ip]

\* an OTA server that serves the armed firmware to any address
OtaArmedForAny(ip) == firmware_to_send_path # NoPath

\* line 376: firmware is prepared for this peer address
OtaArmedFor(ip) == firmware_to_send_path # NoPath /\ ota_server_robot_ip_target = ip

\* lines 364-397: a robot at address ip connects to the OTA port while a
\* firmware is armed for it; the file is opened and its first chunk written,
\* the coroutine waits in drain() with the arm still set
HandleOtaAccept(k, ip) ==
  /\ ota_conn[k] = NoOta
  /\ OtaArmedFor(ip)
  /\ ota_served[firmware_to_send_path] < MaxOta
  /\ ota_conn' = [ota_conn EXCEPT ![k] = [ip |-> ip, path |-> firmware_to_send_path]]
  /\ ota_served' = [ota_served EXCEPT ![firmware_to_send_path] = @ + 1]
  /\ out' = OtaOut("ota_stream", ip)
  /\ UNCHANGED <<uploads, open_files, next_file, disk, firmware_to_send_path,
                 ota_server_robot_ip_target, fw_bytes>>
  /\ UNCHANGED <<regVars, regLock, tcp_clients, poseVars, tcpVars, uiVars, subLock>>

\* lines 380-386, 422-429: a robot at address ip connects while nothing is
\* armed for it; the connection is closed
HandleOtaRefuse(ip) ==
  /\ ~OtaArmedFor(ip)
  /\ out' = OtaOut("ota_refused", ip)
  /\ UNCHANGED fwVars
  /\ UNCHANGED <<regVars, regLock, tcp_clients, poseVars, tcpVars, uiVars, subLock>>

\* a handler that keeps the arm after a send error
ArmedAfterErrorKept(conn) == TRUE

\* lines 415-417: after a send error the arm is left alone unless it is
\* still the one this connection was streaming
ArmedAfterError(conn) ==
  ~(ota_server_robot_ip_target = conn.ip /\ firmware_to_send_path = conn.path)

\* lines 398-430: the transfer of connection k ends; ok: every chunk went through
HandleOtaDone(k, ok) ==
  /\ ota_conn[k] # NoOta
  /\ IF ok
       THEN /\ firmware_to_send_path' = NoPath
            /\ ota_server_robot_ip_target' = ""
            /\ disk' = disk \ {ota_conn[k].path}
       ELSE /\ IF ArmedAfterError(ota_conn[k])
                 THEN UNCHANGED <<firmware_to_send_path, ota_server_robot_ip_target>>
                 ELSE firmware_to_send_path' = NoPath /\ ota_server_robot_ip_target' = ""
            /\ UNCHANGED disk
  /\ ota_conn' = [ota_conn EXCEPT ![k] = NoOta]
  /\ out' = OtaOut(IF ok THEN "ota_sent" ELSE "ota_failed", ota_conn[k].ip)
  /\ UNCHANGED <<uploads, open_files, next_file, ota_served, fw_bytes>>
  /\ UNCHANGED <<regVars, regLock, tcp_clients, poseVars, tcpVars, uiVars, subLock>>

\* broadcast_to_all_ui with its await (lines 57-70).  Line 61 builds one send
\* per socket of the UI set, line 62 awaits them all; other coroutines run
\* meanwhile and UI handlers leave or join the set.  Lines 63-66 then look up
\* every failed send by its index in list(ui_websockets) as the set is now.
\* lines 61-62: the sends that are awaited: their number and how many fail
GatherOf(ui) == [n |-> Cardinality(ui), failed |-> Cardinality({c \in ui : ~alive[c]})]
\* line 65: whether list(ui_websockets)[i] raises IndexError for a failed
\* send, m being the size of the set now.  The iteration order of the set is
\* not fixed by the code: a failed send may have any index below g.n.
GatherCrash(g, m) ==
  {b \in BOOLEAN : /\ (b => (g.failed > 0 /\ m < g.n))
                    /\ (~b => g.failed <= m)}

\* lines 782-796, up to the await of line 62; with no UI socket nothing is
\* awaited and the read loop is entered
AnnounceAddStart(s) ==
  /\ rpc[s] = "announce"
  /\ out' = AllUiResult("add", ralias[s])
  /\ trail' = [trail EXCEPT ![s] = Append(@, "add")]
  /\ IF ui_websockets = {}
       THEN /\ rpc' = [rpc EXCEPT ![s] = "read"]
            /\ UNCHANGED gather
       ELSE /\ rpc' = [rpc EXCEPT ![s] = "gather_add"]
            /\ gather' = [gather EXCEPT ![s] = GatherOf(ui_websockets)]
  /\ UNCHANGED <<regVars, regLock, tcp_clients, poseVars, fwVars, rkey, ralias, peerGone, bcast, inflight, uiVars, subLock>>

\* lines 63-70 and 796-806: the results are inspected.  An IndexError leaves
\* handle_tcp_client before its try block: the coroutine ends without the
\* clean-up of lines 941-985.
AnnounceAddEnd(s) ==
  /\ rpc[s] = "gather_add"
  /\ \E crash \in GatherCrash(gather[s], Cardinality(ui_websockets)) :
       rpc' = [rpc EXCEPT ![s] = IF crash THEN "crashed" ELSE "read"]
  /\ gather' = [gather EXCEPT ![s] = NoGather]
  /\ out' = NoOut
  /\ UNCHANGED <<regVars, regLock, tcp_clients, poseVars, fwVars, rkey, ralias, peerGone, bcast, inflight, trail,
                 uiVars, subLock>>

\* a finally block that comes back to its remove announcement
ReturnedToRemove(s) ==
  /\ rpc' = [rpc EXCEPT ![s] = "announce_rm"]
  /\ UNCHANGED <<rkey, ralias, peerGone, trail>>

\* lines 979-985: the writer is closed and the coroutine returns
Returned(s) ==
  /\ rpc' = [rpc EXCEPT ![s] = "idle"]
  /\ rkey' = [rkey EXCEPT ![s] = NoKey]
  /\ ralias' = [ralias EXCEPT ![s] = NoAlias]
  /\ peerGone' = [peerGone EXCEPT ![s] = FALSE]
  /\ trail' = [trail EXCEPT ![s] = <<>>]

\* lines 966-977, up to the await of line 62
AnnounceRemoveStart(s) ==
  /\ rpc[s] = "announce_rm"
  /\ out' = AllUiResult("remove", ralias[s])
  /\ IF ui_websockets = {}
       THEN /\ Returned(s)
            /\ UNCHANGED gather
       ELSE /\ rpc' = [rpc EXCEPT ![s] = "gather_rm"]
            /\ gather' = [gather EXCEPT ![s] = GatherOf(ui_websockets)]
            /\ UNCHANGED <<rkey, ralias, peerGone, trail>>
  /\ UNCHANGED <<regVars, regLock, tcp_clients, poseVars, fwVars, bcast, inflight, uiVars, subLock>>

\* lines 63-70 and 977-985: the results are inspected.  An IndexError leaves
\* the finally block before line 979: the writer is not closed.
AnnounceRemoveEnd(s) ==
  /\ rpc[s] = "gather_rm"
  /\ \E crash \in GatherCrash(gather[s], Cardinality(ui_websockets)) :
       IF crash
         THEN /\ rpc' = [rpc EXCEPT ![s] = "crashed"]
              /\ UNCHANGED <<rkey, ralias, peerGone, trail>>
         ELSE Returned(s)
  /\ gather' = [gather EXCEPT ![s] = NoGather]
  /\ out' = NoOut
  /\ UNCHANGED <<regVars, regLock, tcp_clients, poseVars, fwVars, bcast, inflight, uiVars, subLock>>

\* --------------------------------------------------- subscription matching
\* faulty variant of SpecificMatch: the data type test of line 1009 dropped
SpecificMatchAnyType(csubs, R, T) == R \in DOMAIN csubs
\* lines 1008-1009
SpecificMatch(csubs, R, T) == R \in DOMAIN csubs /\ T \in csubs[R]
\* lines 1023-1024
GlobalMatch(csubs, T) ==
  GLOBAL_SUBSCRIPTION_KEY \in DOMAIN csubs /\ T \in csubs[GLOBAL_SUBSCRIPTION_KEY]
\* line 1012: sent_to_this_client_for_payload after the specific branch
SentSpecific(csubs, R, T, ok) == SpecificMatch(csubs, R, T) /\ ok
\* faulty variant of TryGlobal: the `not sent_to_this_client_for_payload`
\* test of line 1022 dropped
TryGlobalAlways(csubs, R, T, ok) == GlobalMatch(csubs, T)
\* line 1022: the GLOBAL branch is tried unless the specific send went through
TryGlobal(csubs, R, T, ok) == ~SentSpecific(csubs, R, T, ok) /\ GlobalMatch(csubs, T)
\* calls of ws_client.send for one client and one payload (lines 1005-1033);
\* ok: whether a send on this socket goes through
SendCalls(csubs, R, T, ok) ==
  (IF SpecificMatch(csubs, R, T) THEN 1 ELSE 0) + (IF TryGlobal(csubs, R, T, ok) THEN 1 ELSE 0)
\* of these, the sends that went through
Deliveries(csubs, R, T, ok) == IF ok THEN SendCalls(csubs, R, T, ok) ELSE 0
\* lines 999-1003: the clients of the subscription map whose socket is in the
\* snapshot of the UI set taken at line 995
Addressed(m, map) == DOMAIN m \cap map
\* whether the loop of lines 999-1033 awaits a send at all
WillSend(m, map, R, T) ==
  \E c \in Addressed(m, map) : SpecificMatch(m[c], R, T) \/ GlobalMatch(m[c], T)

\* ------------------------------------------------ broadcast_to_subscribers
FrameOut(R, T, map, calls, got) ==
  [kind |-> "frame", src |-> R, type |-> T, to |-> map, calls |-> calls, got |-> got]

\* lines 809-840: session s has read a frame of type T (readline returned)
InFlightAdd(q, s, T) == IF \E i \in DOMAIN q : q[i][1] = s THEN q ELSE Append(q, <<s, T>>)
\* line 1033: the send loop for the frame of session s is over
InFlightDrop(q, s) == SelectSeq(q, LAMBDA e : e[1] # s)

\* lines 998-1033 up to the first send; l: the lock as this coroutine holds it
BcastEnter(s, T, map, l) ==
  IF WillSend(subs, map, ralias[s], T)
    THEN /\ subLock' = l
         /\ bcast' = [bcast EXCEPT ![s] = [type |-> T, map |-> map, failed |-> {}]]
         /\ inflight' = InFlightAdd(inflight, s, T)
         /\ rpc' = [rpc EXCEPT ![s] = "sending"]
         /\ out' = NoOut
    ELSE /\ subLock' = LockRelease(l)
         /\ bcast' = [bcast EXCEPT ![s] = NoBcast]
         /\ inflight' = InFlightDrop(inflight, s)
         /\ rpc' = [rpc EXCEPT ![s] = "read"]
         /\ out' = FrameOut(ralias[s], T, map, [c \in Clients |-> 0], [c \in Clients |-> 0])

\* lines 818-840 and 987-998: a line is read and normalised to an envelope of
\* type T; broadcast_to_subscribers snapshots the UI set and enters the lock
RobotFrame(s, T) ==
  /\ rpc[s] = "read"
  /\ ~peerGone[s]
  /\ IF LockIdle(subLock)
       THEN BcastEnter(s, T, ui_websockets, LockAcquire(subLock, RTask(s)))
       ELSE /\ subLock' = LockAcquire(subLock, RTask(s))
            /\ bcast' = [bcast EXCEPT ![s] = [type |-> T, map |-> ui_websockets, failed |-> {}]]
            /\ inflight' = InFlightAdd(inflight, s, T)
            /\ rpc' = [rpc EXCEPT ![s] = "b_wait"]
            /\ out' = NoOut
  /\ UNCHANGED <<regVars, regLock, tcp_clients, poseVars, fwVars, rkey, ralias, peerGone, trail, gather, uiVars>>

\* a broadcast that had to wait for the lock is handed it
BcastGo(s) ==
  /\ rpc[s] = "b_wait"
  /\ subLock.holder = RTask(s)
  /\ BcastEnter(s, bcast[s].type, bcast[s].map, subLock)
  /\ UNCHANGED <<regVars, regLock, tcp_clients, poseVars, fwVars, rkey, ralias, peerGone, trail, gather, uiVars>>

\* lines 1038-1043
DropFromUi(ui, failed) == ui \ failed
DropFromSubs(m, failed) == [c \in DOMAIN m \ failed |-> m[c]]

\* lines 1036-1044: the cleanup pass; l: the lock as this coroutine holds it
CleanupBody(s, failed, l) ==
  /\ ui_websockets' = DropFromUi(ui_websockets, failed)
  /\ subs' = DropFromSubs(subs, failed)
  /\ removedOnFailure' = removedOnFailure \cup failed
  /\ subBefore' = [c \in Clients |-> IF c \in failed THEN NoSnap ELSE subBefore[c]]
  /\ subLock' = LockRelease(l)
  /\ bcast' = [bcast EXCEPT ![s] = NoBcast]
  /\ rpc' = [rpc EXCEPT ![s] = "read"]

\* lines 1005-1037: the sends of the loop, made while the lock is held; then
\* the lock is released and, if a send failed, entered again for the cleanup
BcastSend(s) ==
  /\ rpc[s] = "sending"
  /\ subLock.holder = RTask(s)
  /\ LET T == bcast[s].type
         R == ralias[s]
         to == Addressed(subs, bcast[s].map)
         calls == [c \in Clients |-> IF c \in to THEN SendCalls(subs[c], R, T, alive[c]) ELSE 0]
         got == [c \in Clients |-> IF c \in to THEN Deliveries(subs[c], R, T, alive[c]) ELSE 0]
         failed == {c \in Clients : calls[c] > 0 /\ ~alive[c]}
         rel == LockRelease(subLock)
     IN /\ out' = FrameOut(R, T, bcast[s].map, calls, got)
        /\ inflight' = InFlightDrop(inflight, s)
        /\ IF failed = {}
             THEN /\ subLock' = rel
                  /\ bcast' = [bcast EXCEPT ![s] = NoBcast]
                  /\ rpc' = [rpc EXCEPT ![s] = "read"]
                  /\ UNCHANGED <<ui_websockets, subs, removedOnFailure, subBefore>>
             ELSE IF LockIdle(rel)
                    THEN CleanupBody(s, failed, LockAcquire(rel, RTask(s)))
                    ELSE /\ subLock' = LockAcquire(rel, RTask(s))
                         /\ bcast' = [bcast EXCEPT ![s].failed = failed]
                         /\ rpc' = [rpc EXCEPT ![s] = "c_wait"]
                         /\ UNCHANGED <<ui_websockets, subs, removedOnFailure, subBefore>>
  /\ UNCHANGED <<regVars, regLock, tcp_clients, poseVars, fwVars, rkey, ralias, peerGone, trail, gather, wpc, alive, wcmd, cmdsLeft>>

\* the cleanup pass of a broadcast that had to wait for the lock
BcastCleanup(s) ==
  /\ rpc[s] = "c_wait"
  /\ subLock.holder = RTask(s)
  /\ CleanupBody(s, bcast[s].failed, subLock)
  /\ out' = NoOut
  /\ UNCHANGED inflight
  /\ UNCHANGED <<regVars, regLock, tcp_clients, poseVars, fwVars, rkey, ralias, peerGone, trail, gather, wpc, alive, wcmd, cmdsLeft>>

\* -------------------------------------------------- handle_ws_client steps
\* lines 1056-1057
InitSubs(m, c) == IF c \notin DOMAIN m THEN DictSet(m, c, EmptyMap) ELSE m

\* lines 1046-1063: the socket joins the UI set, its subscription entry is
\* created and the registry lock is asked for.  The socket is a new object
\* with a new remote address: no snapshot taken earlier holds it, and it has
\* not been removed by any cleanup pass.
WsAccept(c) ==
  /\ wpc[c] = "idle"
  /\ ui_websockets' = ui_websockets \cup {c}
  /\ alive' = [alive EXCEPT ![c] = TRUE]
  /\ bcast' = [s \in Conns |-> [bcast[s] EXCEPT !.map = @ \ {c}, !.failed = @ \ {c}]]
  /\ removedOnFailure' = removedOnFailure \ {c}
  /\ IF LockIdle(subLock)
       THEN /\ subs' = InitSubs(subs, c)
            /\ regLock' = LockAcquire(regLock, UTask(c))
            /\ wpc' = [wpc EXCEPT ![c] = "init_list"]
            /\ UNCHANGED subLock
       ELSE /\ subLock' = LockAcquire(subLock, UTask(c))
            /\ wpc' = [wpc EXCEPT ![c] = "init_subs"]
            /\ UNCHANGED <<subs, regLock>>
  /\ out' = NoOut
  /\ UNCHANGED <<regVars, tcp_clients, poseVars, fwVars, rpc, rkey, ralias, peerGone, trail, gather, inflight, wcmd, subBefore, cmdsLeft>>

\* lines 1055-1063 for a handler that had to wait for the subscription lock
WsInitSubs(c) ==
  /\ wpc[c] = "init_subs"
  /\ subLock.holder = UTask(c)
  /\ subs' = InitSubs(subs, c)
  /\ subLock' = LockRelease(subLock)
  /\ regLock' = LockAcquire(regLock, UTask(c))
  /\ wpc' = [wpc EXCEPT ![c] = "init_list"]
  /\ out' = NoOut
  /\ UNCHANGED <<regVars, tcp_clients, poseVars, fwVars, tcpVars, ui_websockets, alive, wcmd, subBefore, cmdsLeft, removedOnFailure>>

\* lines 1601-1603; l: the lock as this coroutine holds it
FinalBody(c, l) ==
  /\ subs' = IF c \in DOMAIN subs THEN DictDel(subs, c) ELSE subs
  /\ subLock' = LockRelease(l)
  /\ wpc' = [wpc EXCEPT ![c] = "idle"]
  /\ wcmd' = [wcmd EXCEPT ![c] = NoCmd]
  /\ subBefore' = [subBefore EXCEPT ![c] = NoSnap]
  /\ removedOnFailure' = removedOnFailure \ {c}

\* lines 1596-1603: the finally block
WsLeave(c) ==
  /\ ui_websockets' = ui_websockets \ {c}
  /\ IF LockIdle(subLock)
       THEN FinalBody(c, LockAcquire(subLock, UTask(c)))
       ELSE /\ subLock' = LockAcquire(subLock, UTask(c))
            /\ wpc' = [wpc EXCEPT ![c] = "fin_wait"]
            /\ UNCHANGED <<subs, wcmd, subBefore, removedOnFailure>>

\* lines 1063-1080: the initial robot list is sent under the registry lock;
\* a send on a closed socket raises and ends the handler
WsInitList(c) ==
  /\ wpc[c] = "init_list"
  /\ regLock.holder = UTask(c)
  /\ regLock' = LockRelease(regLock)
  /\ IF alive[c]
       THEN /\ wpc' = [wpc EXCEPT ![c] = "loop"]
            /\ UNCHANGED <<ui_websockets, subLock, subs, wcmd, subBefore, removedOnFailure>>
       ELSE WsLeave(c)
  /\ out' = NoOut
  /\ UNCHANGED <<regVars, tcp_clients, poseVars, fwVars, tcpVars, alive, cmdsLeft>>

\* the peer closes the socket, or the connection breaks
SockDie(c) ==
  /\ wpc[c] # "idle"
  /\ alive[c]
  /\ alive' = [alive EXCEPT ![c] = FALSE]
  /\ out' = NoOut
  /\ UNCHANGED <<regVars, regLock, tcp_clients, poseVars, fwVars, tcpVars, ui_websockets, subs, subLock, wpc,
                 wcmd, subBefore, cmdsLeft, removedOnFailure>>

\* lines 1080, 1590-1598: the message iterator ends on a closed connection
WsClose(c) ==
  /\ wpc[c] = "loop"
  /\ ~alive[c]
  /\ WsLeave(c)
  /\ out' = NoOut
  /\ UNCHANGED <<regVars, regLock, tcp_clients, poseVars, fwVars, tcpVars, alive, cmdsLeft>>

\* the end of the finally block of a handler that had to wait for the lock
WsFinal(c) ==
  /\ wpc[c] = "fin_wait"
  /\ subLock.holder = UTask(c)
  /\ FinalBody(c, subLock)
  /\ out' = NoOut
  /\ UNCHANGED <<regVars, regLock, tcp_clients, poseVars, fwVars, tcpVars, ui_websockets, alive, cmdsLeft>>

\* ------------------------------------------------- subscription commands
\* lines 1232-1237 and 1299-1304
AddSub(m, c, e, T) ==
  LET mine == IF c \in DOMAIN m THEN m[c] ELSE EmptyMap
      old == IF e \in DOMAIN mine THEN mine[e] ELSE {}
  IN DictSet(m, c, DictSet(mine, e, old \cup {T}))

\* an unsubscribe that leaves the type in place
DelSubKeepsType(m, c, e, T) == m

\* lines 1259-1265
DelSub(m, c, e, T) ==
  IF c \in DOMAIN m /\ e \in DOMAIN m[c]
    THEN LET left == m[c][e] \ {T}
             mine == IF left = {} THEN DictDel(m[c], e) ELSE DictSet(m[c], e, left)
         IN IF DOMAIN mine = {} THEN DictDel(m, c) ELSE DictSet(m, c, mine)
    ELSE m

Cmd(name, target, T, e) == [cmd |-> name, target |-> target, type |-> T, ent |-> e]

\* a registry check that lets every alias through
KnownAliasAlways(m, a) == TRUE

\* lines 1226-1227: whether the registry knows the alias
KnownAlias(m, a) == a \in DOMAIN m

\* lines 1280-1297: the key a `direct_subscribe` subscribes to; a: the
\* robot_alias given, ip: the robot_ip given, "" when absent.  The alias is
\* preferred; an alias or an address the registry does not know is logged
\* and the key stays the GLOBAL one.
DirectKey(a, ip) ==
  IF a # ""
    THEN IF a \in DOMAIN alias_to_ip_port THEN a ELSE GLOBAL_SUBSCRIPTION_KEY
    ELSE IF ip # ""
           THEN IF ip \in DOMAIN ip_to_alias THEN ip_to_alias[ip] ELSE GLOBAL_SUBSCRIPTION_KEY
           ELSE GLOBAL_SUBSCRIPTION_KEY

\* lines 1232-1240 and 1299-1306: the entry is added under the subscription
\* lock, the acknowledgement is sent after it is released
SubApplyStart(c, name, target, T, e) ==
  IF LockIdle(subLock)
    THEN /\ subs' = AddSub(subs, c, e, T)
         /\ subBefore' = [subBefore EXCEPT ![c] = Snap(subs, c, name, target, e, T)]
         /\ wpc' = [wpc EXCEPT ![c] = "loop"]
         /\ wcmd' = [wcmd EXCEPT ![c] = NoCmd]
         /\ UNCHANGED subLock
    ELSE /\ subLock' = LockAcquire(subLock, UTask(c))
         /\ wpc' = [wpc EXCEPT ![c] = "sub_apply"]
         /\ wcmd' = [wcmd EXCEPT ![c] = Cmd(name, target, T, e)]
         /\ subBefore' = [subBefore EXCEPT ![c] = NoSnap]
         /\ UNCHANGED subs

\* lines 1208-1240: `subscribe` with type T and robot_alias a; an unknown
\* alias is answered with an error sent under the registry lock
WsSubscribe(c, a, T) ==
  /\ wpc[c] = "loop"
  /\ cmdsLeft > 0
  /\ cmdsLeft' = cmdsLeft - 1
  /\ IF LockIdle(regLock)
       THEN IF KnownAlias(alias_to_ip_port, a)
              THEN /\ SubApplyStart(c, "subscribe", a, T, a)
                   /\ UNCHANGED regLock
              ELSE /\ regLock' = LockAcquire(regLock, UTask(c))
                   /\ wpc' = [wpc EXCEPT ![c] = "sub_reject"]
                   /\ wcmd' = [wcmd EXCEPT ![c] = Cmd("subscribe", a, T, a)]
                   /\ subBefore' = [subBefore EXCEPT ![c] = NoSnap]
                   /\ UNCHANGED <<subs, subLock>>
       ELSE /\ regLock' = LockAcquire(regLock, UTask(c))
            /\ wpc' = [wpc EXCEPT ![c] = "sub_check"]
            /\ wcmd' = [wcmd EXCEPT ![c] = Cmd("subscribe", a, T, a)]
            /\ subBefore' = [subBefore EXCEPT ![c] = NoSnap]
            /\ UNCHANGED <<subs, subLock>>
  /\ out' = NoOut
  /\ UNCHANGED <<regVars, tcp_clients, poseVars, fwVars, tcpVars, ui_websockets, alive, removedOnFailure>>

\* lines 1226-1232 for a handler that had to wait for the registry lock
WsSubCheck(c) ==
  /\ wpc[c] = "sub_check"
  /\ regLock.holder = UTask(c)
  /\ IF KnownAlias(alias_to_ip_port, wcmd[c].target)
       THEN /\ regLock' = LockRelease(regLock)
            /\ SubApplyStart(c, wcmd[c].cmd, wcmd[c].target, wcmd[c].type, wcmd[c].ent)
       ELSE /\ wpc' = [wpc EXCEPT ![c] = "sub_reject"]
            /\ UNCHANGED <<regLock, subs, subLock, subBefore, wcmd>>
  /\ out' = NoOut
  /\ UNCHANGED <<regVars, tcp_clients, poseVars, fwVars, tcpVars, ui_websockets, alive, cmdsLeft, removedOnFailure>>

\* lines 1229-1230: the error reply has been sent, the lock is left and the
\* next message is read
WsSubReject(c) ==
  /\ wpc[c] = "sub_reject"
  /\ regLock.holder = UTask(c)
  /\ regLock' = LockRelease(regLock)
  /\ wpc' = [wpc EXCEPT ![c] = "loop"]
  /\ wcmd' = [wcmd EXCEPT ![c] = NoCmd]
  /\ out' = ReplyOut("error", c, "subscribe", alive[c])
  /\ UNCHANGED <<regVars, tcp_clients, poseVars, fwVars, tcpVars, ui_websockets, subs, subLock, alive, subBefore,
                 cmdsLeft, removedOnFailure>>

\* lines 1232-1240 for a handler that had to wait for the subscription lock
WsSubApply(c) ==
  /\ wpc[c] = "sub_apply"
  /\ subLock.holder = UTask(c)
  /\ subs' = AddSub(subs, c, wcmd[c].ent, wcmd[c].type)
  /\ subBefore' = [subBefore EXCEPT ![c] = Snap(subs, c, wcmd[c].cmd, wcmd[c].target, wcmd[c].ent, wcmd[c].type)]
  /\ subLock' = LockRelease(subLock)
  /\ wpc' = [wpc EXCEPT ![c] = "loop"]
  /\ wcmd' = [wcmd EXCEPT ![c] = NoCmd]
  /\ out' = NoOut
  /\ UNCHANGED <<regVars, regLock, tcp_clients, poseVars, fwVars, tcpVars, ui_websockets, alive, cmdsLeft,
                 removedOnFailure>>

\* lines 1272-1306: `direct_subscribe` naming neither robot_alias nor robot_ip
WsDirectSubscribeAll(c, T) ==
  /\ wpc[c] = "loop"
  /\ cmdsLeft > 0
  /\ cmdsLeft' = cmdsLeft - 1
  /\ SubApplyStart(c, "direct_subscribe", "", T, GLOBAL_SUBSCRIPTION_KEY)
  /\ out' = NoOut
  /\ UNCHANGED <<regVars, regLock, tcp_clients, poseVars, fwVars, tcpVars, ui_websockets, alive, removedOnFailure>>

\* lines 1272-1306: `direct_subscribe` naming robot_alias a or, with a = "",
\* robot_ip ip; the target is resolved under the registry lock.  The queued
\* command keeps the alias in `target` and the address in `ent`.
WsDirectSubscribe(c, a, ip, T) ==
  /\ wpc[c] = "loop"
  /\ a # "" \/ ip # ""
  /\ cmdsLeft > 0
  /\ cmdsLeft' = cmdsLeft - 1
  /\ IF LockIdle(regLock)
       THEN /\ SubApplyStart(c, "direct_subscribe", IF a # "" THEN a ELSE ip, T, DirectKey(a, ip))
            /\ UNCHANGED regLock
       ELSE /\ regLock' = LockAcquire(regLock, UTask(c))
            /\ wpc' = [wpc EXCEPT ![c] = "dsub_check"]
            /\ wcmd' = [wcmd EXCEPT ![c] = Cmd("direct_subscribe", a, T, ip)]
            /\ subBefore' = [subBefore EXCEPT ![c] = NoSnap]
            /\ UNCHANGED <<subs, subLock>>
  /\ out' = NoOut
  /\ UNCHANGED <<regVars, tcp_clients, poseVars, fwVars, tcpVars, ui_websockets, alive, removedOnFailure>>

\* lines 1282-1297 for a handler that had to wait for the registry lock
WsDirectCheck(c) ==
  /\ wpc[c] = "dsub_check"
  /\ regLock.holder = UTask(c)
  /\ regLock' = LockRelease(regLock)
  /\ SubApplyStart(c, "direct_subscribe", IF wcmd[c].target # "" THEN wcmd[c].target ELSE wcmd[c].ent,
                   wcmd[c].type, DirectKey(wcmd[c].target, wcmd[c].ent))
  /\ out' = NoOut
  /\ UNCHANGED <<regVars, tcp_clients, poseVars, fwVars, tcpVars, ui_websockets, alive, cmdsLeft, removedOnFailure>>

\* lines 1242-1270: `unsubscribe` with type T and robot_alias a; the
\* acknowledgement is sent under the subscription lock
WsUnsubscribe(c, a, T) ==
  /\ wpc[c] = "loop"
  /\ cmdsLeft > 0
  /\ cmdsLeft' = cmdsLeft - 1
  /\ subLock' = LockAcquire(subLock, UTask(c))
  /\ IF LockIdle(subLock)
       THEN /\ subs' = DelSub(subs, c, a, T)
            /\ wpc' = [wpc EXCEPT ![c] = "unsub_ack"]
            /\ subBefore' = [subBefore EXCEPT ![c] = Undo(@, a, T)]
            /\ UNCHANGED wcmd
       ELSE /\ wpc' = [wpc EXCEPT ![c] = "unsub_wait"]
            /\ wcmd' = [wcmd EXCEPT ![c] = Cmd("unsubscribe", a, T, a)]
            /\ UNCHANGED <<subs, subBefore>>
  /\ out' = NoOut
  /\ UNCHANGED <<regVars, regLock, tcp_clients, poseVars, fwVars, tcpVars, ui_websockets, alive, removedOnFailure>>

\* lines 1258-1265 for a handler that had to wait for the subscription lock
WsUnsubApply(c) ==
  /\ wpc[c] = "unsub_wait"
  /\ subLock.holder = UTask(c)
  /\ subs' = DelSub(subs, c, wcmd[c].ent, wcmd[c].type)
  /\ subBefore' = [subBefore EXCEPT ![c] = Undo(@, wcmd[c].ent, wcmd[c].type)]
  /\ wpc' = [wpc EXCEPT ![c] = "unsub_ack"]
  /\ wcmd' = [wcmd EXCEPT ![c] = NoCmd]
  /\ out' = NoOut
  /\ UNCHANGED <<regVars, regLock, tcp_clients, poseVars, fwVars, tcpVars, ui_websockets, subLock, alive, cmdsLeft,
                 removedOnFailure>>

\* lines 1266-1270: the acknowledgement has been sent, the lock is left
WsUnsubAck(c) ==
  /\ wpc[c] = "unsub_ack"
  /\ subLock.holder = UTask(c)
  /\ subLock' = LockRelease(subLock)
  /\ wpc' = [wpc EXCEPT ![c] = "loop"]
  /\ out' = NoOut
  /\ UNCHANGED <<regVars, regLock, tcp_clients, poseVars, fwVars, tcpVars, ui_websockets, subs, alive, wcmd, subBefore,
                 cmdsLeft, removedOnFailure>>

\* ------------------------------------------------------- specifications
Aliases == {AliasNames[n] : n \in 1..MaxAlias}

NextTcp ==
  \/ \E s \in Conns, key \in Keys : TcpAccept(s, key)
  \/ \E s \in Conns : Register(s)
  \/ \E s \in Conns : Greet(s)
  \/ \E s \in Conns : AnnounceAdd(s)
  \/ \E s \in Conns : RobotEof(s)
  \/ \E s \in Conns : Unregister(s)
  \/ \E s \in Conns : AnnounceRemove(s)

NextBcast ==
  \/ \E s \in Conns, T \in DataTypes : RobotFrame(s, T)
  \/ \E s \in Conns : BcastGo(s)
  \/ \E s \in Conns : BcastSend(s)
  \/ \E s \in Conns : BcastCleanup(s)

\* a UI socket connects, breaks and is cleaned up
NextWsLife ==
  \/ \E c \in Clients : WsAccept(c)
  \/ \E c \in Clients : WsInitList(c)
  \/ \E c \in Clients : SockDie(c)
  \/ \E c \in Clients : WsClose(c)

\* the steps of a UI handler that had to wait for the subscription lock
NextWsQueued ==
  \/ \E c \in Clients : WsInitSubs(c)
  \/ \E c \in Clients : WsFinal(c)

NextWsCmd ==
  \/ \E c \in Clients, a \in Aliases, T \in DataTypes : WsSubscribe(c, a, T)
  \/ \E c \in Clients : WsSubCheck(c)
  \/ \E c \in Clients : WsSubReject(c)
  \/ \E c \in Clients : WsSubApply(c)
  \/ \E c \in Clients, T \in DataTypes : WsDirectSubscribeAll(c, T)
  \/ \E c \in Clients, a \in Aliases, T \in DataTypes : WsUnsubscribe(c, a, T)
  \/ \E c \in Clients : WsUnsubApply(c)
  \/ \E c \in Clients : WsUnsubAck(c)

\* `direct_subscribe` for a robot named by alias or by address, known to the
\* registry or not
SomeIPs == IPs \cup {"10.0.0.9"}
NextDirectCmd ==
  \/ \E c \in Clients, a \in Aliases, T \in DataTypes : WsDirectSubscribe(c, a, "", T)
  \/ \E c \in Clients, ip \in SomeIPs, T \in DataTypes : WsDirectSubscribe(c, "", ip, T)
  \/ \E c \in Clients : WsDirectCheck(c)
  \/ \E c \in Clients : WsSubApply(c)

Next == NextTcp \/ NextBcast \/ NextWsLife \/ NextWsQueued \/ NextWsCmd \/ NextDirectCmd

\* the whole bridge
Spec == Init /\ [][Next]_vars

\* robots connect and disconnect while UI sockets come and go; no telemetry
\* flows and no UI command is sent, so the subscription lock is never awaited
NextRegistry == NextTcp \/ NextWsLife

SpecRegistry == Init /\ [][NextRegistry]_vars

\* The router is exercised with every robot at an address of its own: session
\* slot s serves the peer HomeKey(s).
HomeKeys == << <<"10.0.0.5", 55000>>, <<"10.0.0.6", 55000>>, <<"10.0.0.5", 55001>>, <<"10.0.0.6", 55001>> >>
HomeKey(s) == HomeKeys[((s - 1) % 4) + 1]

\* The state after every robot slot has connected from its own address and
\* reached its read loop, with no UI client connected yet; budget: the commands
\* the UI sockets are going to send.
RouterStart(budget) ==
  /\ pid_config_cache = {}
  /\ ip_port_to_alias = [k \in {HomeKey(s) : s \in Conns} |-> NewAlias(CHOOSE s \in Conns : HomeKey(s) = k)]
  /\ alias_to_ip_port = [a \in {NewAlias(s) : s \in Conns} |-> HomeKey(CHOOSE s \in Conns : NewAlias(s) = a)]
  /\ ip_to_alias = [ip \in {HomeKey(s)[1] : s \in Conns} |->
                      NewAlias(CHOOSE s \in Conns : /\ HomeKey(s)[1] = ip
                                                    /\ \A x \in Conns : HomeKey(x)[1] = ip => s <= x)]
  /\ alias_to_ip = [a \in {ip_to_alias[ip] : ip \in DOMAIN ip_to_alias} |->
                      CHOOSE ip \in DOMAIN ip_to_alias : ip_to_alias[ip] = a]
  /\ next_robot_number = MaxConns + 1
  /\ mint_log = [n \in 1..MaxConns |-> <<NewAlias(n), HomeKey(n)>>]
  /\ regLock = FreeLock
  /\ tcp_clients = [k \in {HomeKey(s) : s \in Conns} |-> CHOOSE s \in Conns : HomeKey(s) = k]
  /\ robot_data = EmptyMap
  /\ latest_imu_data = {}
  /\ now = 1
  /\ NoFirmware
  /\ rpc = [s \in Conns |-> "read"]
  /\ rkey = [s \in Conns |-> HomeKey(s)]
  /\ ralias = [s \in Conns |-> NewAlias(s)]
  /\ peerGone = [s \in Conns |-> FALSE]
  /\ gather = [s \in Conns |-> NoGather]
  /\ bcast = [s \in Conns |-> NoBcast]
  /\ inflight = <<>>
  /\ trail = [s \in Conns |-> Append(GreetLines(pid_config_cache), "add")]
  /\ ui_websockets = {}
  /\ subs = EmptyMap
  /\ subLock = FreeLock
  /\ wpc = [c \in Clients |-> "idle"]
  /\ alive = [c \in Clients |-> FALSE]
  /\ wcmd = [c \in Clients |-> NoCmd]
  /\ subBefore = [c \in Clients |-> NoSnap]
  /\ cmdsLeft = budget
  /\ removedOnFailure = {}
  /\ out = NoOut

InitRouter == RouterStart(MaxCmds)

\* telemetry of connected robots is routed to UI sockets that connect,
\* subscribe, unsubscribe and break
NextRouter == NextBcast \/ NextWsLife \/ NextWsQueued \/ NextWsCmd

SpecRouter == InitRouter /\ [][NextRouter]_vars

\* The router with one more command and a single telemetry type, every
\* command naming a connected robot: long enough for a client to subscribe,
\* be dropped by a cleanup pass and subscribe again while broadcasts queue.
InitEncoder == RouterStart(MaxCmds + 1)

ConnectedAliases == {NewAlias(s) : s \in Conns}

NextEncoderCmd ==
  \/ \E c \in Clients, a \in ConnectedAliases : WsSubscribe(c, a, "encoder_data")
  \/ \E c \in Clients : WsSubCheck(c)
  \/ \E c \in Clients : WsSubApply(c)
  \/ \E c \in Clients : WsDirectSubscribeAll(c, "encoder_data")
  \/ \E c \in Clients, a \in ConnectedAliases : WsUnsubscribe(c, a, "encoder_data")
  \/ \E c \in Clients : WsUnsubApply(c)
  \/ \E c \in Clients : WsUnsubAck(c)

NextEncoder ==
  \/ \E s \in Conns : RobotFrame(s, "encoder_data")
  \/ \E s \in Conns : BcastGo(s)
  \/ \E s \in Conns : BcastSend(s)
  \/ \E s \in Conns : BcastCleanup(s)
  \/ NextWsLife
  \/ NextWsQueued
  \/ NextEncoderCmd

SpecEncoder == InitEncoder /\ [][NextEncoder]_vars

\* UI sockets that send `direct_subscribe` for robots they name by alias or by
\* address, known to the registry or not, while the connected robots send
\* encoder telemetry
NextDirect ==
  \/ \E s \in Conns : RobotFrame(s, "encoder_data")
  \/ \E s \in Conns : BcastGo(s)
  \/ \E s \in Conns : BcastSend(s)
  \/ \E s \in Conns : BcastCleanup(s)
  \/ NextWsLife
  \/ NextWsQueued
  \/ NextDirectCmd

SpecDirect == InitRouter /\ [][NextDirect]_vars

\* Robot sessions from connection to return, with the await inside
\* broadcast_to_all_ui, while UI sockets come and go.  Every robot connects
\* from an address of its own.
NextSession ==
  \/ \E s \in Conns : TcpAccept(s, HomeKey(s))
  \/ \E s \in Conns : Register(s)
  \/ \E s \in Conns : Greet(s)
  \/ \E s \in Conns : AnnounceAddStart(s)
  \/ \E s \in Conns : AnnounceAddEnd(s)
  \/ \E s \in Conns : RobotEof(s)
  \/ \E s \in Conns : Unregister(s)
  \/ \E s \in Conns : AnnounceRemoveStart(s)
  \/ \E s \in Conns : AnnounceRemoveEnd(s)
  \/ NextWsLife

\* the event loop runs every coroutine that is ready: a coroutine that holds
\* the registry lock leaves it, one that waits for it gets it, an awaited
\* gather completes
SessionFairness ==
  /\ \A s \in Conns : /\ WF_vars(Register(s))
                        /\ WF_vars(Unregister(s))
                        /\ WF_vars(AnnounceRemoveStart(s))
                        /\ WF_vars(AnnounceRemoveEnd(s))
  /\ \A c \in Clients : WF_vars(WsInitList(c))

SpecSession == Init /\ [][NextSession]_vars /\ SessionFairness

\* the same sessions of a bridge whose PID file holds any set of motors
InitGreeting == \E cache \in SUBSET Motors : Started(cache)

SpecGreeting == InitGreeting /\ [][NextSession]_vars

\* Robots that connect from an address of their own, send telemetry to a
\* bridge without UI clients, disconnect and connect again
NextPose ==
  \/ \E s \in Conns : TcpAccept(s, HomeKey(s))
  \/ \E s \in Conns : Greet(s)
  \/ \E s \in Conns : AnnounceAdd(s)
  \/ \E s \in Conns, ok \in BOOLEAN : ImuFrame(s, ok)
  \/ \E s \in Conns, valid \in BOOLEAN, ok \in BOOLEAN, adv \in BOOLEAN : EncoderFrame(s, valid, ok, adv)
  \/ \E s \in Conns : RobotEof(s)
  \/ \E s \in Conns : AnnounceRemove(s)

SpecPose == Init /\ [][NextPose]_vars

\* UI sockets that connect, stay connected and stage firmware for the robot
\* addresses while robots fetch it from the OTA port
Sizes == 0..MaxSize
NextFirmware ==
  \/ \E c \in Clients, ip \in IPs, size \in Sizes : WsUploadFirmwareStart(c, ip, size)
  \/ \E c \in Clients, ip \in IPs, n \in 1..MaxSize : WsFirmwareDataChunk(c, ip, n)
  \/ \E c \in Clients, ip \in IPs : WsUploadFirmwareEnd(c, ip)
  \/ \E f \in 1..MaxUploads : CollectFile(f)
  \/ \E ip \in IPs : HandleOtaAccept(1, ip)
  \/ \E ok \in BOOLEAN : HandleOtaDone(1, ok)
  \/ \E c \in Clients : WsAccept(c)
  \/ \E c \in Clients : WsInitList(c)

SpecFirmware == Init /\ [][NextFirmware]_vars

\* UI sockets that send the commands that target a robot, naming it by
\* address, by alias, by both or by neither, while the connected robots leave
TargetIPs == SomeIPs \cup {NoIp}
TargetAliases == Aliases \cup {NoAlias}
Payloads == {"none", "pid_values", "pid_bad", "json"}
NextCommand ==
  \/ \E c \in Clients, ip \in TargetIPs, a \in TargetAliases, p \in Payloads, ok \in BOOLEAN :
        WsSendToRobot(c, ip, a, p, ok)
  \/ \E c \in Clients, ip \in TargetIPs, a \in TargetAliases, ok \in BOOLEAN :
        WsUpgradeSignal(c, ip, a, ok)
  \/ \E c \in Clients, ip \in TargetIPs, a \in TargetAliases, ok \in BOOLEAN :
        WsTriggerRobotPidTask(c, ip, a, ok)
  \/ \E c \in Clients, ip \in TargetIPs, a \in TargetAliases, file \in SUBSET Motors :
        WsLoadPidConfig(c, ip, a, file)
  \/ \E c \in Clients, ip \in TargetIPs, a \in TargetAliases : WsRequestTrajectory(c, ip, a)
  \/ \E s \in Conns : RobotEof(s)
  \/ \E s \in Conns : Unregister(s)
  \/ \E s \in Conns : AnnounceRemove(s)
  \/ \E c \in Clients : WsAccept(c)
  \/ \E c \in Clients : WsInitList(c)

SpecCommand == InitRouter /\ [][NextCommand]_vars

\* the trajectory calculator is fed every mix of IMU and encoder samples for
\* one robot key, MaxFrames samples in all
CalcKey == HomeKey(1)
Headings == {NoYaw, 0, 1}
Speeds == {0, 1}
NextTrajectory ==
  \/ \E yaw \in Headings, stale \in BOOLEAN : TrajImu(CalcKey, yaw, stale, MaxFrames)
  \/ \E ts \in 1..MaxTime, rpms \in BOOLEAN, v \in Speeds, stale \in BOOLEAN :
       TrajEncoder(CalcKey, ts, rpms, v, stale, MaxFrames)

SpecTrajectory == Init /\ [][NextTrajectory]_vars

\* the long run: after one IMU sample the robot drives straight ahead, every
\* encoder sample one second after the last, until MaxRun points were appended
DriveOn(key) ==
  /\ key \in DOMAIN robot_data
  /\ robot_data[key].appended < MaxRun
  /\ TrajEncoder(key, robot_data[key].last_timestamp_encoder + 1, TRUE, 1, FALSE, MaxRun + 1)

NextLongRun ==
  \/ TrajImu(CalcKey, 0, FALSE, 1)
  \/ DriveOn(CalcKey)

SpecLongRun == Init /\ [][NextLongRun]_vars

\* the calculator is fed fresh IMU samples and encoder samples that carry
\* their RPM lists, MaxFrames samples in all
SeedStamps == {100, 101, 102}
RpmLists == {<<60, 60, 60>>, <<0, 0, 0>>, <<60, 0, 0>>, <<60, 60>>}
NextSeed ==
  \/ \E yaw \in Headings : TrajImu(CalcKey, yaw, FALSE, MaxFrames)
  \/ \E ts \in SeedStamps, data \in RpmLists : TrajEncoderData(CalcKey, ts, data, MaxFrames)

SpecSeed == Init /\ [][NextSeed]_vars

\* the first robot sends IMU and encoder lines, with and without payload
\* timestamps, to a bridge without UI clients while time passes
LineLists == {<<60, 60, 60>>, <<60, 60>>, <<60, 60, 60, 60>>}
LineStamps == {NoTime, 1, 2}
NextClock ==
  \/ \E euler \in {NoYaw, 0} : ImuLine(1, euler)
  \/ \E ts \in LineStamps, data \in LineLists : EncoderLine(1, ts, data)
  \/ \E d \in {1, MaxDataAge + 1} : Tick(d)

SpecClock == InitRouter /\ [][NextClock]_vars

\* one UI socket stages firmware of MaxSize bytes, each in one chunk, while
\* robots connect to the OTA port, several at a time
NextOta ==
  \/ \E ip \in IPs : WsUploadFirmwareStart(1, ip, MaxSize)
  \/ \E ip \in IPs : WsFirmwareDataChunk(1, ip, MaxSize)
  \/ \E ip \in IPs : WsUploadFirmwareEnd(1, ip)
  \/ \E f \in 1..MaxUploads : CollectFile(f)
  \/ \E k \in OtaConns, ip \in IPs : HandleOtaAccept(k, ip)
  \/ \E ip \in IPs : HandleOtaRefuse(ip)
  \/ \E k \in OtaConns, ok \in BOOLEAN : HandleOtaDone(k, ok)
  \/ WsAccept(1)
  \/ WsInitList(1)

SpecOta == Init /\ [][NextOta]_vars

\* =============================================================== properties
\* d[k] is defined and equals v
Has(d, k, v) == k \in DOMAIN d /\ d[k] = v
\* the step in which session s leaves the registration block of lines 715-727
Registering(s) == rpc[s] \in {"idle", "reg_wait"} /\ rpc'[s] = "greet"
\* the step in which session s leaves the clean-up block of lines 948-964
Unregistering(s) == rpc[s] \in {"read", "unreg_wait"} /\ rpc'[s] = "announce_rm"
\* session s has registered and has not reached its clean-up block
Registered(s) == rpc[s] \in {"greet", "announce", "read", "b_wait", "sending", "c_wait", "unreg_wait"}
\* session s is in its read loop and its peer still holds the socket
LiveInLoop(s) == rpc[s] = "read" /\ ~peerGone[s]
\* the keys for which an alias has been minted so far
MintedKeys == {mint_log[i][2] : i \in DOMAIN mint_log}
\* the aliases minted so far
MintedAliases == {mint_log[i][1] : i \in DOMAIN mint_log}

\* ---------------------------------------------------------------------- C1
\* C1: for every live robot session with key (ip,port) and alias a, from its
\* registration until its own unregistration, the registry maps (ip,port) to a
\* and a back to (ip,port); no other session's connect or disconnect breaks
\* either direction.
C1_LiveSessionIsMapped ==
  \A s \in Conns :
    LiveInLoop(s) => /\ Has(ip_port_to_alias, rkey[s], ralias[s])
                     /\ Has(alias_to_ip_port, ralias[s], rkey[s])

\* ---------------------------------------------------------------------- C2
\* C2 as stated: a robot that reconnects from the (ip,port) of an earlier
\* session of this process, also after that session was unregistered, is
\* given the alias that (ip,port) had before, and no alias is minted.
C2_ReconnectKeepsAlias ==
  [][\A s \in Conns :
       (Registering(s) /\ rkey'[s] \in MintedKeys)
         => /\ \E i \in DOMAIN mint_log : mint_log[i] = <<ralias'[s], rkey'[s]>>
            /\ next_robot_number' = next_robot_number]_vars

\* C2 as the code has it: a robot that reconnects from an (ip,port) whose
\* registry entry is still present is given the alias of that entry, which
\* was minted for this (ip,port), and nothing is minted; a robot that
\* reconnects after the entry was removed is given a newly minted alias,
\* different from every alias minted before.
C2_ReconnectWhileRegistered ==
  [][\A s \in Conns :
       (Registering(s) /\ rkey'[s] \in MintedKeys)
         => IF rkey'[s] \in DOMAIN ip_port_to_alias
              THEN /\ ralias'[s] = ip_port_to_alias[rkey'[s]]
                   /\ \E i \in DOMAIN mint_log : mint_log[i] = <<ralias'[s], rkey'[s]>>
                   /\ next_robot_number' = next_robot_number
                   /\ mint_log' = mint_log
              ELSE /\ ralias'[s] \notin MintedAliases
                   /\ ralias'[s] # NoAlias
                   /\ mint_log' = Append(mint_log, <<ralias'[s], rkey'[s]>>)]_vars

\* a connection has just been given the alias of a session of the same
\* (ip,port) that is still registered, and only one alias was ever minted
C2_Witness ==
  \E s1, s2 \in Conns :
    /\ s1 # s2
    /\ rpc[s2] = "greet" /\ Registered(s1)
    /\ rkey[s1] = rkey[s2]
    /\ ralias[s1] = ralias[s2] /\ ralias[s2] # NoAlias
    /\ Len(mint_log) = 1

\* ---------------------------------------------------------------------- C3
\* C3: registering a connection mints a new alias and advances the counter if
\* and only if its (ip,port) is not in the registry; otherwise the existing
\* alias is returned and the counter and every mapping stay as they are.  A
\* connection from a new port of a known IP therefore gets a new alias.
C3_MintIffNewKey ==
  [][\A s \in Conns :
       Registering(s)
         => LET k == rkey'[s]
                known == k \in DOMAIN ip_port_to_alias
            IN /\ (~known) <=> (next_robot_number' = next_robot_number + 1)
               /\ (~known) <=> (mint_log' # mint_log)
               /\ (~known) => /\ ralias'[s] = AliasNames[next_robot_number]
                              /\ ralias'[s] \notin DOMAIN alias_to_ip_port
                              /\ Has(ip_port_to_alias', k, ralias'[s])
                              /\ Has(alias_to_ip_port', ralias'[s], k)
               /\ known => /\ ralias'[s] = ip_port_to_alias[k]
                           /\ next_robot_number' = next_robot_number
                           /\ ip_port_to_alias' = ip_port_to_alias
                           /\ alias_to_ip_port' = alias_to_ip_port
                           /\ ip_to_alias' = ip_to_alias
                           /\ alias_to_ip' = alias_to_ip]_vars

\* two ports of one IP are registered under two aliases
C3_Witness ==
  \E k1, k2 \in DOMAIN ip_port_to_alias :
    /\ k1[1] = k2[1] /\ k1[2] # k2[2]
    /\ ip_port_to_alias[k1] # ip_port_to_alias[k2]

\* ---------------------------------------------------------------------- C4
\* C4: the alias counter starts at 1, grows by exactly 1 on each mint and in
\* no other step, and never shrinks, whatever the interleaving of connects and
\* disconnects; the n-th alias minted is robot<n>, so the numbers of the
\* minted aliases are strictly increasing.
C4_CounterMonotone ==
  /\ next_robot_number = 1
  /\ [][/\ next_robot_number' \in {next_robot_number, next_robot_number + 1}
        /\ (next_robot_number' = next_robot_number + 1) <=> (Len(mint_log') = Len(mint_log) + 1)
        /\ (next_robot_number' = next_robot_number) <=> (mint_log' = mint_log)]_vars
  /\ [](/\ Len(mint_log) = next_robot_number - 1
        /\ \A i \in DOMAIN mint_log : mint_log[i][1] = AliasNames[i])

\* two aliases were minted, every robot has disconnected, the counter is 3
C4_Witness ==
  /\ next_robot_number = 3
  /\ DOMAIN ip_port_to_alias = {}
  /\ \A s \in Conns : rpc[s] = "idle"

\* ---------------------------------------------------------------------- C5
\* the entry of ip in the ip -> primary alias index is the same before and
\* after the step
SamePrimary(ip) ==
  /\ (ip \in DOMAIN ip_to_alias) <=> (ip \in DOMAIN ip_to_alias')
  /\ ip \in DOMAIN ip_to_alias => ip_to_alias'[ip] = ip_to_alias[ip]
\* session s mints an alias in this step
Minting(s) == Registering(s) /\ rkey'[s] \notin DOMAIN ip_port_to_alias
\* an alias of ip is in the registry
HasLiveAlias(ip) == \E k \in DOMAIN ip_port_to_alias : k[1] = ip
\* an entry of the index goes away or changes only by being deleted, in the
\* clean-up of a session whose key holds the primary alias
ClearedOnlyByPrimary ==
  \A ip \in DOMAIN ip_to_alias :
    ~SamePrimary(ip)
      => /\ ip \notin DOMAIN ip_to_alias'
         /\ \E s \in Conns : /\ Unregistering(s)
                             /\ rkey[s][1] = ip
                             /\ Has(ip_port_to_alias, rkey[s], ip_to_alias[ip])
\* an entry appears only in a step that mints an alias for that IP: nothing
\* is promoted when the primary is cleared
NoPromotion ==
  \A ip \in IPs :
    (ip \notin DOMAIN ip_to_alias /\ ip \in DOMAIN ip_to_alias')
      => \E s \in Conns : /\ Minting(s)
                          /\ rkey'[s][1] = ip
                          /\ ip_to_alias'[ip] = ralias'[s]

C6_NoSecondSessionForKey ==
  \A s1, s2 \in Conns :
    (s1 # s2 /\ rpc[s1] = "read" /\ rpc[s2] = "read") => rkey[s1] # rkey[s2]

\* --------------------------------------------------------------------- C10
\* C10: any UI send error makes the bridge remove the client from all maps;
\* after an available_robot_update add/remove event whose send to a client
\* failed, that client is in neither the UI set nor the subscription map.
C10_FailedAnnounceDropsClient ==
  out.kind \in {"add", "remove"}
    => \A c \in out.to : out.got[c] = 0 => (c \notin ui_websockets /\ c \notin DOMAIN subs)

\* ----------------------------------------------------------------------- C7
\* client c holds the subscription (e, T) in the subscription map m
Subscribed(m, c, e, T) == c \in DOMAIN m /\ e \in DOMAIN m[c] /\ T \in m[c][e]
\* T is in subs[c][R] or in subs[c][GLOBAL]
Matches(m, c, R, T) == Subscribed(m, c, R, T) \/ Subscribed(m, c, GLOBAL_SUBSCRIPTION_KEY, T)

\* C7: when the send loop of a broadcast of a type-T frame of robot R runs,
\* the frame is sent to a client only if T is in subs[c][R] or in
\* subs[c][GLOBAL] at that moment, and it is sent to every client of the UI
\* set for which that holds; a client matching neither is sent nothing, and a
\* (GLOBAL,T) subscription matches the type-T frames of every robot.
C7_SentIffSubscribed ==
  [][out'.kind = "frame"
       => \A c \in Clients :
            /\ out'.calls[c] > 0 => Matches(subs, c, out'.src, out'.type)
            /\ (c \in ui_websockets /\ Matches(subs, c, out'.src, out'.type)) => out'.calls[c] > 0
            /\ (c \in out'.to /\ Matches(subs, c, out'.src, out'.type)) => out'.calls[c] > 0]_vars

\* a frame has gone to a client that holds only a GLOBAL subscription for its
\* type, and not to a connected client that is subscribed to something else
C7_Witness ==
  /\ out.kind = "frame"
  /\ \E c1, c2 \in Clients :
       /\ out.got[c1] = 1
       /\ Subscribed(subs, c1, GLOBAL_SUBSCRIPTION_KEY, out.type)
       /\ ~Subscribed(subs, c1, out.src, out.type)
       /\ c2 \in ui_websockets /\ c2 \in out.to /\ c2 \in DOMAIN subs
       /\ DOMAIN subs[c2] # {}
       /\ ~Matches(subs, c2, out.src, out.type)
       /\ out.calls[c2] = 0

\* ----------------------------------------------------------------------- C8
\* C8 as stated: for every frame and every matching client exactly one send
\* of the frame is performed to the client, even when the client holds both
\* the (R,T) and the (GLOBAL,T) subscription.
C8_ExactlyOneSend ==
  [][out'.kind = "frame"
       => \A c \in out'.to :
            Matches(subs, c, out'.src, out'.type) => out'.calls[c] = 1]_vars

\* C8 as the code has it: a matching client whose socket takes the send is
\* sent the frame exactly once, even when it holds both subscriptions, and no
\* client receives a frame twice; when the send fails, nothing is received
\* and the frame is tried a second time if the client holds both the (R,T)
\* and the (GLOBAL,T) subscription.
C8_OneSendUnlessFailed ==
  [][out'.kind = "frame"
       => \A c \in out'.to :
            Matches(subs, c, out'.src, out'.type)
              => IF alive[c]
                   THEN out'.calls[c] = 1 /\ out'.got[c] = 1
                   ELSE /\ out'.got[c] = 0
                        /\ out'.calls[c] =
                             IF /\ Subscribed(subs, c, out'.src, out'.type)
                                /\ Subscribed(subs, c, GLOBAL_SUBSCRIPTION_KEY, out'.type)
                               THEN 2 ELSE 1]_vars

\* a frame has been received once by a client that holds both subscriptions
C8_Witness ==
  /\ out.kind = "frame"
  /\ \E c \in Clients :
       /\ out.calls[c] = 1 /\ out.got[c] = 1
       /\ Subscribed(subs, c, out.src, out.type)
       /\ Subscribed(subs, c, GLOBAL_SUBSCRIPTION_KEY, out.type)

\* ----------------------------------------------------------------------- C9
\* C9: a client whose send failed during a subscriber broadcast is removed
\* from the UI set and from the subscription map in one critical section (the
\* step that removes it leaves it in neither), and no frame is sent to it
\* afterwards.
C9_RemovedClientGetsNoFrame ==
  [][/\ \A c \in removedOnFailure' \ removedOnFailure :
          c \notin ui_websockets' /\ c \notin DOMAIN subs'
     /\ out'.kind = "frame" => \A c \in removedOnFailure : out'.calls[c] = 0]_vars

\* ---------------------------------------------------------------------- C11
\* the sessions that have a frame in flight
InFlightSessions == {inflight[i][1] : i \in DOMAIN inflight}

\* C11: the frames of a robot reach a subscribed client in the order in which
\* the bridge read them: a session reads its next frame only when its last
\* one is through its send loop, a frame that is read joins the end of the
\* frames in flight, and the frame whose send loop runs is always the one
\* that was read first among those in flight, whatever other sessions and
\* clients do in between.
C11_FramesSentInReadOrder ==
  [][/\ out'.kind = "frame"
          => IF inflight = <<>>
               THEN inflight' = <<>>
               ELSE /\ ralias[Head(inflight)[1]] = out'.src
                    /\ Head(inflight)[2] = out'.type
                    /\ inflight' = Tail(inflight)
     /\ \A s \in Conns :
          (s \in InFlightSessions' /\ s \notin InFlightSessions)
            => /\ rpc[s] = "read"
               /\ Len(inflight') = Len(inflight) + 1
               /\ SubSeq(inflight', 1, Len(inflight)) = inflight
               /\ inflight'[Len(inflight')][1] = s
     /\ \A s \in Conns :
          (s \in InFlightSessions /\ s \notin InFlightSessions') => out'.kind = "frame"]_vars

\* a client has received a frame while a frame read later, which it is
\* subscribed to as well, waits for its turn
C11_Witness ==
  /\ out.kind = "frame"
  /\ Len(inflight) >= 1
  /\ \E c \in Clients :
       /\ out.got[c] = 1
       /\ Matches(subs, c, ralias[Head(inflight)[1]], Head(inflight)[2])
       /\ c \in bcast[Head(inflight)[1]].map

\* the subscribe of client c recorded in subBefore has been undone by an
\* unsubscribe for the same entity and type, and the type was new to c
RoundTripDone(c) ==
  /\ subBefore[c].undone
  /\ ~(subBefore[c].ent \in DOMAIN subBefore[c].prior
        /\ subBefore[c].type \in subBefore[c].prior[subBefore[c].ent])

\* C12 as stated: subscribe(c, alias, T) for a type T that c did not hold,
\* followed by unsubscribe(c, alias, T), leaves the entry of c in the
\* subscription map identical to the entry before the subscribe.
C12_RoundTripIdentity ==
  \A c \in Clients :
    RoundTripDone(c) => /\ (c \in DOMAIN subs) = subBefore[c].had
                        /\ c \in DOMAIN subs => subs[c] = subBefore[c].prior

\* C12 amended: after the round trip client c holds exactly the (entity, type)
\* subscriptions it held before; an entry that held none is deleted from the
\* map, whether or not it was present (empty) before the subscribe.
C12_RoundTripKeepsSubscriptions ==
  \A c \in Clients :
    RoundTripDone(c) => IF subBefore[c].prior = EmptyMap
                          THEN c \notin DOMAIN subs
                          ELSE Has(subs, c, subBefore[c].prior)

\* a round trip on top of a subscription the client keeps
C12_Witness ==
  \E c \in Clients : RoundTripDone(c) /\ subBefore[c].prior # EmptyMap /\ wpc[c] = "loop"

\* C13: a `subscribe` whose robot_alias is not in the registry is answered
\* with an error reply and leaves the subscriptions unchanged; only a
\* subscribe for a registered alias is ever applied.
C13_UnknownAliasRejected ==
  [][\A c \in Clients :
       /\ (wpc'[c] = "sub_reject" /\ wpc[c] # "sub_reject")
            => /\ subs' = subs
               /\ wcmd'[c].cmd = "subscribe"
               /\ wcmd'[c].target \notin DOMAIN alias_to_ip_port
       /\ (wpc[c] = "sub_reject" /\ wpc'[c] # "sub_reject")
            => /\ subs' = subs
               /\ wpc'[c] = "loop"
               /\ out'.kind = "error" /\ out'.type = "subscribe" /\ out'.to = {c}
       /\ (subBefore'[c] # subBefore[c] /\ subBefore'[c].cmd = "subscribe")
            => subBefore'[c].ent \in DOMAIN alias_to_ip_port
       /\ (wpc'[c] = "sub_apply" /\ wcmd'[c].cmd = "subscribe")
            => wcmd'[c].ent \in DOMAIN alias_to_ip_port]_vars

\* the error reply reaches a client that keeps the subscription it holds
C13_Witness ==
  /\ out.kind = "error" /\ out.type = "subscribe"
  /\ \E c \in Clients : /\ out.to = {c} /\ out.got[c] = 1
                          /\ c \in DOMAIN subs /\ subs[c] # EmptyMap

\* C14: `direct_subscribe` that names a robot_alias or a robot_ip subscribes
\* to that robot as `subscribe` does and rejects a target the registry does
\* not know; the GLOBAL key is used only when neither is given.
C14_DirectGlobalOnlyWhenUntargeted ==
  \A c \in Clients :
    (subBefore[c].cmd = "direct_subscribe" /\ subBefore[c].target # "")
      => subBefore[c].ent # GLOBAL_SUBSCRIPTION_KEY

\* session s has left its read loop and not yet returned
Ending(s) == rpc[s] \in {"unreg_wait", "announce_rm", "gather_rm"}

\* C15: every robot session whose read loop ends (EOF, 60 s idle timeout or
\* read error) has its registry mappings removed by its clean-up block and
\* eventually has emitted the remove event and closed its writer.
C15_EndedSessionIsCleanedUp ==
  /\ [][\A s \in Conns :
          (rpc[s] \in {"read", "unreg_wait"} /\ rpc'[s] = "announce_rm")
            => /\ rkey[s] \notin DOMAIN ip_port_to_alias'
               /\ \A a \in DOMAIN alias_to_ip_port' : alias_to_ip_port'[a] # rkey[s]]_vars
  /\ \A s \in Conns : Ending(s) ~> (rpc[s] = "idle")

\* the same, a session that ends by an exception counted as ended
C15_EndedSessionReturnsOrCrashes ==
  \A s \in Conns : Ending(s) ~> (rpc[s] \in {"idle", "crashed"})

\* C17: for each accepted robot connection the bridge emits, in this order,
\* the minimal status-success acknowledgement, the connection_ack, the add
\* event to the UI clients, and then the cached PID lines, one per motor.
C17_GreetingOrder ==
  \A s \in Conns :
    rpc[s] = "read" => trail[s] = <<"status_ack", "connection_ack", "add">> \o PidLines(pid_config_cache)

\* C16: when a robot session ends its pose state is closed: pose state exists
\* only for the keys of sessions that have not reached their clean-up, so a
\* later session with the same key starts from the fresh pose.
C16_PoseClosedWithSession ==
  \A key \in DOMAIN robot_data :
    \E s \in Conns : rkey[s] = key /\ rpc[s] \in {"greet", "announce", "read"}

\* a step in which `upload_firmware_end` for ip was answered
EndReplied(ip) == out'.src = ip /\ out'.type \in {"success", "upload_finish"}

\* C18: upload_firmware_end for an address hands out the staged path (and
\* answers firmware_prepared_for_ota) exactly when an upload is staged for it
\* and the bytes received since its last upload_firmware_start equal the
\* declared filesize; in every other case it answers with an error.
C18_EndSucceedsIffComplete ==
  [][\A ip \in IPs : EndReplied(ip) =>
       /\ (out'.kind = "firmware_prepared_for_ota")
            <=> (ip \in DOMAIN uploads /\ fw_bytes[ip] = uploads[ip].filesize)
       /\ out'.kind = "firmware_prepared_for_ota" => firmware_to_send_path' = uploads[ip].path
       /\ out'.kind # "firmware_prepared_for_ota" => out'.kind = "error"]_vars

\* a second upload for some address was finalized with every declared byte received
C18_Witness ==
  /\ out.kind = "firmware_prepared_for_ota"
  /\ out.src \in IPs
  /\ fw_bytes[out.src] = MaxSize
  /\ firmware_to_send_path = 2
  /\ ota_server_robot_ip_target = out.src

\* C19: every open firmware file belongs to an upload in progress: none stays
\* open after its upload was finalized or replaced by a new start for the
\* same address.
C19_HandlesClosed == open_files \subseteq Referenced(uploads)

\* C20: when upload_firmware_end meets a size mismatch, the reply is an error
\* with stage upload_finish, the armed path and target are unchanged and no
\* firmware file is deleted.
C20_MismatchLeavesArm ==
  [][\A ip \in IPs :
       (EndReplied(ip) /\ ip \in DOMAIN uploads /\ fw_bytes[ip] # uploads[ip].filesize) =>
         /\ out'.kind = "error" /\ out'.type = "upload_finish"
         /\ firmware_to_send_path' = firmware_to_send_path
         /\ ota_server_robot_ip_target' = ota_server_robot_ip_target
         /\ disk' = disk]_vars

\* after the first upload was armed, a second one for the same address was
\* refused at its end, and the first one is still armed and on disk
C20_Witness ==
  /\ out.kind = "error" /\ out.type = "upload_finish"
  /\ out.src \in IPs
  /\ firmware_to_send_path = 1 /\ 1 \in disk
  /\ ota_server_robot_ip_target = out.src
  /\ next_file = 3 /\ uploads = EmptyMap
  /\ \A ip \in IPs \ {out.src} : fw_bytes[ip] = 0
  /\ fw_bytes[out.src] = 1


\* C21: every armed firmware is streamed to at most one OTA connection.
C21_OneTransferPerArming == \A p \in 1..MaxUploads : ota_served[p] <= 1

\* a step in which the OTA server dealt with a new connection from ip
OtaAccepted(ip) == out'.src = ip /\ out'.kind \in {"ota_stream", "ota_refused"}

\* C22: an OTA connection from an address that is not the armed target, or
\* with nothing armed, is closed without a byte of firmware and leaves the armed
\* path and target as they were.
C22_StrangerGetsNothing ==
  [][\A ip \in IPs :
       (OtaAccepted(ip) /\ (firmware_to_send_path = NoPath \/ ota_server_robot_ip_target # ip)) =>
         /\ out'.kind = "ota_refused"
         /\ ota_served' = ota_served /\ ota_conn' = ota_conn
         /\ firmware_to_send_path' = firmware_to_send_path
         /\ ota_server_robot_ip_target' = ota_server_robot_ip_target
         /\ disk' = disk]_vars

\* a robot was turned away while a firmware is armed for another address
C22_Witness ==
  /\ out.kind = "ota_refused"
  /\ firmware_to_send_path # NoPath
  /\ ota_server_robot_ip_target # out.src

\* C23: when the transfer of an OTA connection fails, the firmware it was
\* streaming is not armed afterwards: the arm is cleared if it still was that
\* firmware, and only a firmware armed later can be served to the address.
C23_SendErrorDisarms ==
  [][\A k \in OtaConns :
       (out'.kind = "ota_failed" /\ ota_conn[k] # NoOta /\ ota_conn'[k] = NoOta) =>
         /\ firmware_to_send_path' # ota_conn[k].path
         /\ firmware_to_send_path = ota_conn[k].path =>
              (firmware_to_send_path' = NoPath /\ ota_server_robot_ip_target' = "")
         /\ firmware_to_send_path # ota_conn[k].path =>
              UNCHANGED <<firmware_to_send_path, ota_server_robot_ip_target>>
         /\ ota_served' = ota_served]_vars

\* a transfer failed: its firmware was streamed once, is still on disk, and
\* nothing is armed
C23_Witness ==
  /\ out.kind = "ota_failed"
  /\ firmware_to_send_path = NoPath /\ ota_server_robot_ip_target = ""
  /\ \A k \in OtaConns : ota_conn[k] = NoOta
  /\ \E p \in disk : ota_served[p] = 1


\* a step in which the handler of the targeted command cmd ran
Commanded(cmd) == "cmd" \in DOMAIN out' /\ out'.cmd = cmd
RobotCommands ==
  {"send_to_robot", "upgrade_signal", "trigger_robot_pid_task", "load_pid_config", "request_trajectory"}
\* the sessions whose robot is connected under alias a / at address ip
LiveByAlias(a) ==
  IF a \in DOMAIN alias_to_ip_port /\ alias_to_ip_port[a] \in DOMAIN tcp_clients
    THEN {tcp_clients[alias_to_ip_port[a]]} ELSE {}
LiveByIp(ip) == {tcp_clients[k] : k \in {x \in DOMAIN tcp_clients : x[1] = ip}}

\* C24: a targeted command that names a robot (by alias, address or both) of
\* which none is connected is answered with a command_response of status
\* error, writes to no robot and changes neither the registry nor a session.
C24_UnknownTargetIsRefused ==
  [][\A cmd \in RobotCommands :
       (/\ Commanded(cmd)
        /\ out'.ip # NoIp \/ out'.alias # NoAlias
        /\ LiveByAlias(out'.alias) = {} /\ LiveByIp(out'.ip) = {}) =>
         /\ out'.kind = "command_response" /\ out'.type = "error"
         /\ UNCHANGED <<regVars, tcp_clients, tcpVars, subs>>]_vars

\* C25: a targeted command that names a connected robot by alias and another
\* connected robot by address writes to no robot but the one the alias names.
C25_AliasWins ==
  [][\A cmd \in RobotCommands :
       (/\ Commanded(cmd)
        /\ LiveByAlias(out'.alias) # {} /\ LiveByIp(out'.ip) # {}
        /\ LiveByAlias(out'.alias) # LiveByIp(out'.ip)) =>
         \A s \in Conns : trail'[s] # trail[s] => s \in LiveByAlias(out'.alias)]_vars

\* C26: load_pid_config for a connected robot writes the MOTOR lines of the
\* PID file to the writer of that robot and answers with a command_response.
C26_LoadPidConfigPushesAndReplies ==
  [][(/\ Commanded("load_pid_config")
      /\ LiveByIp(ResolveLoadPidConfig(out'.ip, out'.alias)) # {}) =>
        /\ out'.kind = "command_response"
        /\ \E file \in SUBSET Motors :
             \E s \in LiveByIp(ResolveLoadPidConfig(out'.ip, out'.alias)) :
               trail' = [trail EXCEPT ![s] = @ \o PidLines(file)]]_vars

\* C27: request_trajectory for a registered robot is answered with a
\* trajectory_data message.
C27_TrajectoryReply ==
  [][(/\ Commanded("request_trajectory")
      /\ out'.alias \in DOMAIN alias_to_ip_port) =>
        out'.kind = "trajectory_data"]_vars


\* the pose of the calculator key before and after a step
PoseBefore == StateOf(robot_data, CalcKey)
PoseAfter == StateOf(robot_data', CalcKey)

\* C28: the calculation that sets last_timestamp_encoder for the first time
\* leaves (x, y) where it was, and only records the timestamp of the encoder
\* sample, the heading and the first path point.
C28_FirstFrameSeedsOnly ==
  [][(PoseBefore.last_timestamp_encoder = NoTime /\ PoseAfter.last_timestamp_encoder # NoTime) =>
       /\ PoseAfter.x = PoseBefore.x /\ PoseAfter.y = PoseBefore.y
       /\ PoseAfter.x = 0 /\ PoseAfter.y = 0
       /\ PoseAfter.last_timestamp_encoder = PoseAfter.latest_encoder_data.ts
       /\ Len(PoseAfter.path_history) = 1
       /\ PoseAfter.path_history[1].x = 0 /\ PoseAfter.path_history[1].y = 0
       /\ PoseAfter.path_history[1].theta = PoseAfter.theta]_vars

\* a moving encoder sample with a late timestamp was the first to be integrated
C28_Witness ==
  /\ CalcKey \in DOMAIN robot_data
  /\ robot_data[CalcKey].last_timestamp_encoder = MaxTime
  /\ robot_data[CalcKey].latest_encoder_data.v = 1
  /\ robot_data[CalcKey].x = 0 /\ robot_data[CalcKey].y = 0
  /\ robot_data[CalcKey].appended = 1

\* C29: an encoder sample whose timestamp is not later than
\* last_timestamp_encoder leaves (x, y), the path and last_timestamp_encoder as
\* they were; theta is the heading of the IMU sample when that carries one.
C29_OldFrameRefreshesHeadingOnly ==
  [][(/\ out'.kind = "pose_encoder"
      /\ PoseBefore.last_timestamp_encoder # NoTime
      /\ PoseAfter.latest_encoder_data.ts <= PoseBefore.last_timestamp_encoder) =>
       /\ PoseAfter.x = PoseBefore.x /\ PoseAfter.y = PoseBefore.y
       /\ PoseAfter.path_history = PoseBefore.path_history
       /\ PoseAfter.last_timestamp_encoder = PoseBefore.last_timestamp_encoder
       /\ PoseAfter.theta = IF PoseAfter.latest_imu_data.yaw # NoYaw
                              THEN PoseAfter.latest_imu_data.yaw ELSE PoseBefore.theta]_vars

\* after the robot moved, a fresh moving encoder sample with an earlier
\* timestamp arrived
C29_Witness ==
  /\ out.kind = "pose_encoder"
  /\ CalcKey \in DOMAIN robot_data
  /\ robot_data[CalcKey].last_timestamp_encoder = MaxTime
  /\ robot_data[CalcKey].latest_encoder_data.ts < MaxTime
  /\ robot_data[CalcKey].latest_encoder_data.v = 1
  /\ robot_data[CalcKey].latest_encoder_data.rpms
  /\ robot_data[CalcKey].x # 0
  /\ robot_data[CalcKey].appended = 2

\* C30: a path never holds more than 1000 points, and it holds the points
\* appended last: once more than 1000 were appended the oldest are gone.
C30_PathCapped ==
  \A key \in DOMAIN robot_data :
    LET p == robot_data[key]
        n == Len(p.path_history)
    IN /\ n <= 1000
       /\ n = IF p.appended < 1000 THEN p.appended ELSE 1000
       /\ \A i \in 1..n : p.path_history[i].n = p.appended - n + i

\* the seed point and 1000 integrations: the seed point has been dropped
C30_Witness ==
  /\ CalcKey \in DOMAIN robot_data
  /\ robot_data[CalcKey].appended = 1001
  /\ Len(robot_data[CalcKey].path_history) = 1000
  /\ robot_data[CalcKey].path_history[1].n = 2

\* C31: after an IMU sample with yaw 0, an encoder sample at timestamp 100
\* with RPMs [60, 60, 60] and a second one at timestamp 101 with the same
\* RPMs, the pose is x = 0.0325 * 2 pi, y = 0, theta = 0. In units of
\* pi / 1 800 000 m the expected x is 0.0325 * 2 * 1 800 000 = 117000.
C31_SeedScenario ==
  [][(/\ out.kind = "pose_encoder"
      /\ PoseBefore.frames = 2
      /\ PoseBefore.latest_imu_data = [yaw |-> 0]
      /\ PoseBefore.latest_encoder_data.ts = 100
      /\ PoseBefore.last_timestamp_encoder = 100
      /\ out'.kind = "pose_encoder"
      /\ PoseAfter.latest_encoder_data.ts = 101
      /\ out'.data = <<60, 60, 60>>) =>
       /\ PoseAfter.x = 117000
       /\ PoseAfter.y = 0
       /\ PoseAfter.theta = 0]_vars

\* the three samples of the scenario were fed and the robot stands at
\* x = 0.0325 * 2 pi
C31_Witness ==
  /\ out.kind = "pose_encoder"
  /\ CalcKey \in DOMAIN robot_data
  /\ robot_data[CalcKey].frames = 3
  /\ robot_data[CalcKey].latest_imu_data = [yaw |-> 0]
  /\ robot_data[CalcKey].latest_encoder_data.ts = 101
  /\ robot_data[CalcKey].last_timestamp_encoder = 101
  /\ robot_data[CalcKey].x = 117000
  /\ robot_data[CalcKey].y = 0
  /\ robot_data[CalcKey].appended = 2

\* C32: when the robot's latest imu_data line was read more than max_data_age
\* seconds ago, the session handler's processing of an encoder line does not
\* integrate: (x, y), the path and last_timestamp_encoder stay as they were.
C32_StaleImuBlocksIntegration ==
  [][(/\ out'.kind = "encoder_line"
      /\ PoseBefore.imu_frame_at # NoTime
      /\ now - PoseBefore.imu_frame_at > MaxDataAge) =>
       /\ PoseAfter.x = PoseBefore.x /\ PoseAfter.y = PoseBefore.y
       /\ PoseAfter.path_history = PoseBefore.path_history
       /\ PoseAfter.last_timestamp_encoder = PoseBefore.last_timestamp_encoder]_vars

\* C35: the processing of an imu_data line leaves (x, y) of the robot where
\* it was, whether its encoder lines carry a payload timestamp or not.
C35_ImuLineKeepsPosition ==
  [][out'.kind = "imu_line" =>
       /\ PoseAfter.x = PoseBefore.x
       /\ PoseAfter.y = PoseBefore.y]_vars

\* C33: no send of a subscriber broadcast is made while the broadcast holds
\* the subscription lock: a session that is in its send loop has released
\* subscribers_lock, so no subscribe or unsubscribe waits for its sends.
C33_SendsOutsideLock ==
  \A s \in Conns : rpc[s] = "sending" => subLock.holder # RTask(s)

\* C36: for every robot session in its read loop whose peer still holds the
\* socket, ConnectionManager keeps an entry under the session's key and the
\* writer of that entry is the session's own; no other session's start or
\* clean-up removes or replaces it.
C36_LiveSessionOwnsWriter ==
  \A s \in Conns : LiveInLoop(s) => Has(tcp_clients, rkey[s], s)

\* the aliases the registry maps a key to
LiveAliases == {ip_port_to_alias[k] : k \in DOMAIN ip_port_to_alias}

\* C37: no alias refers to two (ip,port) keys: the (ip,port) -> alias map is
\* injective in every reachable state, every alias in it was minted for the
\* key it is under, and no alias is minted twice, so an alias released on a
\* disconnect is never given to another key.
C37_AliasesInjective ==
  /\ \A k1, k2 \in DOMAIN ip_port_to_alias :
       ip_port_to_alias[k1] = ip_port_to_alias[k2] => k1 = k2
  /\ \A k \in DOMAIN ip_port_to_alias :
       \E i \in DOMAIN mint_log : mint_log[i] = <<ip_port_to_alias[k], k>>
  /\ \A i, j \in DOMAIN mint_log : mint_log[i][1] = mint_log[j][1] => i = j

\* robot1 was released on a disconnect, two aliases were minted after it
\* and two keys are registered
C37_Witness ==
  /\ Len(mint_log) = 3
  /\ mint_log[1][1] \notin LiveAliases
  /\ Cardinality(DOMAIN ip_port_to_alias) = 2
  /\ \E k \in DOMAIN ip_port_to_alias : k # mint_log[1][2]

\* what session s has emitted since it was accepted
Emitted(s) == {trail[s][i] : i \in DOMAIN trail[s]}

\* C38: every remove event is the one remove of a session that has announced
\* its add before: the step that broadcasts it takes that session out of
\* its remove announcement, a session that waits for the sends of its remove
\* does not come back to announce it again, and a session that is about to
\* announce its remove has announced its add.
C38_RemoveOnceAfterAdd ==
  [][/\ out'.kind = "remove" =>
          \E s \in Conns : /\ rpc[s] = "announce_rm"
                            /\ rpc'[s] \in {"gather_rm", "idle"}
                            /\ out'.src = ralias[s]
                            /\ "add" \in Emitted(s)
     /\ \A s \in Conns : rpc[s] = "gather_rm" => rpc'[s] # "announce_rm"
     /\ \A s \in Conns : rpc'[s] = "announce_rm" => "add" \in Emitted(s)]_vars

\* a session that announced its add has just broadcast its remove to a
\* connected UI socket
C38_Witness ==
  \E s \in Conns : /\ rpc[s] = "gather_rm"
                    /\ out.kind = "remove"
                    /\ out.src = ralias[s]
                    /\ out.to # {}
                    /\ "add" \in Emitted(s)

\* the handler of UI socket c has added the socket to ui_websockets and has
\* not yet reached the send of its initial_robot_list: it waits for the
\* subscription lock or for the registry lock
AwaitsList(c) ==
  \/ wpc[c] = "init_subs"
  \/ wpc[c] = "init_list" /\ regLock.holder # UTask(c)

\* C39: no available_robot_update event, add or remove, is sent to a UI
\* socket that was accepted and has not been sent its initial_robot_list.
C39_ListBeforeEvents ==
  [][out'.kind \in {"add", "remove"} =>
       \A c \in Clients : AwaitsList(c) => out'.calls[c] = 0]_vars

\* C34: when a transfer completes successfully while another firmware than
\* the one it streamed is armed, that arm is left in place: path and target
\* are what they were before the transfer completed.
C34_LaterArmSurvives ==
  [][\A k \in OtaConns :
       (/\ ota_conn[k] # NoOta
        /\ ota_conn'[k] = NoOta
        /\ out'.kind = "ota_sent"
        /\ firmware_to_send_path # NoPath
        /\ firmware_to_send_path # ota_conn[k].path) =>
         /\ firmware_to_send_path' = firmware_to_send_path
         /\ ota_server_robot_ip_target' = ota_server_robot_ip_target]_vars

====
